---- MODULE Spec2Model ----
(***************************************************************************)
(* rscute: the in-memory module-graph inliner and import/export rewriter   *)
(* (execute / executeCode / fullCodeGen) as a state machine.               *)
(*                                                                         *)
(* A behaviour is one process: a project on disk (files, tsconfig), the    *)
(* process-wide caches (transformCache, fileCache) and the invocations of  *)
(* execute / executeCode.  Every invocation owns its visited set           *)
(* (processedFiles), its inlined-body stack (bundleStack) and its registry *)
(* (externalImportSet), and advances from one await to the next.           *)
(*                                                                         *)
(* Next to it: the command line's run(files) (runCall) and the file-based  *)
(* variant of execute, which writes temporary .mjs files and imports them  *)
(* (allTempFiles, tempDisk, fileInv); and the require hook of register.js, *)
(* whose handlers call execute (hook).                                     *)
(***************************************************************************)
EXTENDS Integers, Sequences, FiniteSets, TLC

VARIABLES project, transformCache, fileCache, inv, calls,
          runCall, allTempFiles, tempDisk, fileInv, hook

vars == <<project, transformCache, fileCache, inv, calls,
          runCall, allTempFiles, tempDisk, fileInv, hook>>

\* the state of the file-based variant
fileVars == <<allTempFiles, tempDisk, fileInv>>

(***************************************************************************)
(* Bounds of the model.                                                    *)
(***************************************************************************)
\* number of execute / executeCode invocations in one behaviour
MaxCalls == 2

(***************************************************************************)
(* Small helpers on sequences.                                             *)
(***************************************************************************)
Range(s) == {s[k] : k \in DOMAIN s}

Last(s) == s[Len(s)]

Front(s) == SubSeq(s, 1, Len(s) - 1)

\* Set.prototype.add on an insertion-ordered set of strings
SetAdd(s, x) == IF x \in Range(s) THEN s ELSE Append(s, x)

RECURSIVE SetAddAll(_, _)
SetAddAll(s, xs) ==
  IF xs = <<>> THEN s ELSE SetAddAll(SetAdd(s, Head(xs)), Tail(xs))

\* [...new Set(xs)]: first occurrences, in order
Unique(xs) == SetAddAll(<<>>, xs)

RECURSIVE Flatten(_)
Flatten(ss) == IF ss = <<>> THEN <<>> ELSE Head(ss) \o Flatten(Tail(ss))

\* the empty Map
EmptyMap == <<>>

MapPut(m, k, v) == [x \in DOMAIN m \cup {k} |-> IF x = k THEN v ELSE m[x]]

(***************************************************************************)
(* Program constants.                                                      *)
(***************************************************************************)
extensions == <<".js", ".ts", ".mjs", ".mts", ".cjs", ".cts", ".jsx", ".tsx">>

jsExtensions == {".js", ".mjs", ".cjs", ".jsx"}

excludedExtensions ==
  {".svg", ".bmp", ".ico", ".gif", ".png", ".jpeg", ".jpg", ".webp", ".avif",
   ".astro", ".vue", ".svelte", ".css", ".scss"}

handledNodeTypes ==
  {"ImportDeclaration", "VariableDeclaration", "ExportDeclaration",
   "ExportDefaultExpression", "ExportDefaultDeclaration", "ExportAllDeclaration",
   "TsExportAssignment", "TsNamespaceExportDeclaration", "ExpressionStatement",
   "CallExpression"}

isHandledNode(node) == node.type \in handledNodeTypes

\* null / undefined of an optional name
NoName == ""

(***************************************************************************)
(* Strings: paths and import specifiers are the strings the program sees.  *)
(***************************************************************************)
StartsWith(s, pre) == Len(s) >= Len(pre) /\ SubSeq(s, 1, Len(pre)) = pre

EndsWith(s, suf) ==
  Len(s) >= Len(suf) /\ SubSeq(s, Len(s) - Len(suf) + 1, Len(s)) = suf

\* s.slice(n), n counted from 0 as in the source
Slice(s, n) == IF n >= Len(s) THEN "" ELSE SubSeq(s, n + 1, Len(s))

IndicesOf(s, ch) == {k \in 1..Len(s) : SubSeq(s, k, k) = ch}

MaxOf(S) == CHOOSE m \in S : \A k \in S : k <= m

MinOf(S) == CHOOSE m \in S : \A k \in S : m <= k

\* the part of a path after its last '/'
basename(p) ==
  IF IndicesOf(p, "/") = {} THEN p ELSE Slice(p, MaxOf(IndicesOf(p, "/")))

\* path.dirname
dirname(p) ==
  IF IndicesOf(p, "/") = {} THEN "."
  ELSE IF MaxOf(IndicesOf(p, "/")) = 1 THEN "/"
  ELSE SubSeq(p, 1, MaxOf(IndicesOf(p, "/")) - 1)

\* path.extname: from the last '.' of the base name, '' when there is none or
\* when the only '.' is the first character of the base name
extname(p) ==
  LET b == basename(p)
      dots == IndicesOf(b, ".")
  IN  IF dots = {} \/ MaxOf(dots) = 1 THEN "" ELSE Slice(b, MaxOf(dots) - 1)

\* path.resolve(dir, rel) for the shapes of rel the program passes
resolve(dir, rel) ==
  IF StartsWith(rel, "/") THEN rel
  ELSE IF rel = "." \/ rel = "./" THEN dir
  ELSE IF StartsWith(rel, "./") THEN dir \o "/" \o Slice(rel, 2)
  ELSE IF StartsWith(rel, "../") THEN dirname(dir) \o "/" \o Slice(rel, 3)
  ELSE dir \o "/" \o rel

\* process.cwd(), where package.json is found
Cwd == "/proj"

getProjectRoot == Cwd

\* fs.existsSync; a path that is not absolute is taken from process.cwd()
existsSync(p, files) == resolve(Cwd, p) \in DOMAIN files

\* fs.readFileSync of an existing file
readFileSync(p, files) == files[resolve(Cwd, p)]

(***************************************************************************)
(* Path Resolver.                                                          *)
(***************************************************************************)
\* tsconfig.json is absent, or has no compilerOptions
NoTsConfig == [baseUrl |-> "", paths |-> <<>>]

\* loadTsConfig: compilerOptions of <project root>/tsconfig.json, read once
loadTsConfig(proj) == proj.tsConfig

\* alias.replace(/\*$/, '')
StripStar(s) == IF EndsWith(s, "*") THEN SubSeq(s, 1, Len(s) - 1) ELSE s

\* how many extensions resolvePathWithExtension probes with existsSync
ProbeCount(basePath, files) ==
  IF extname(basePath) # "" THEN 0
  ELSE LET hits == {k \in DOMAIN extensions : existsSync(basePath \o extensions[k], files)}
       IN  IF hits = {} THEN Len(extensions) ELSE MinOf(hits)

\* as resolvePathWithExtension, with the last existing candidate returned
resolvePathWithExtensionLastWins(basePath, files) ==
  IF extname(basePath) # "" THEN basePath
  ELSE LET hits == {k \in DOMAIN extensions : existsSync(basePath \o extensions[k], files)}
       IN  IF hits = {} THEN basePath ELSE basePath \o extensions[MaxOf(hits)]

resolvePathWithExtension(basePath, files) ==
  IF extname(basePath) # "" THEN basePath
  ELSE LET hits == {k \in DOMAIN extensions : existsSync(basePath \o extensions[k], files)}
       IN  IF hits = {} THEN basePath ELSE basePath \o extensions[MinOf(hits)]

\* the candidate paths of the alias table for importPath, in the order tried
AliasCandidates(importPath, tsConfig) ==
  LET baseDir == resolve(getProjectRoot, tsConfig.baseUrl)
      ForAlias(k) ==
        LET aliasPrefix == StripStar(tsConfig.paths[k].alias)
            targetPaths == tsConfig.paths[k].targets
        IN  IF ~StartsWith(importPath, aliasPrefix) THEN <<>>
            ELSE [t \in DOMAIN targetPaths |->
                    resolve(baseDir, StripStar(targetPaths[t])
                                       \o Slice(importPath, Len(aliasPrefix)))]
  IN  Flatten([k \in DOMAIN tsConfig.paths |-> ForAlias(k)])

resolveImportPath(importPath, tsConfig, files) ==
  IF tsConfig.baseUrl = "" THEN importPath
  ELSE LET baseDir == resolve(getProjectRoot, tsConfig.baseUrl)
           cands == AliasCandidates(importPath, tsConfig)
           hits == {k \in DOMAIN cands :
                      existsSync(resolvePathWithExtension(cands[k], files), files)}
       IN  IF hits # {} THEN resolvePathWithExtension(cands[MinOf(hits)], files)
           ELSE resolve(baseDir, importPath)

\* the first two statements of processImportDeclaration, processVariableDeclaration
\* and the ExportAllDeclaration case: specifier to candidate path
ResolveSpecifier(importPath, basePath, tsConfig, files) ==
  resolvePathWithExtension(
    IF StartsWith(importPath, ".") THEN resolve(dirname(basePath), importPath)
    ELSE resolveImportPath(importPath, tsConfig, files),
    files)

\* the existsSync calls one resolution of a specifier makes: the probes of the
\* alias table, the extension probes and the final existence test
ExistsCalls(importPath, basePath, tsConfig, files) ==
  LET aliasProbes ==
        IF StartsWith(importPath, ".") \/ tsConfig.baseUrl = "" THEN 0
        ELSE Len(AliasCandidates(importPath, tsConfig))
      unprobed ==
        IF StartsWith(importPath, ".") THEN resolve(dirname(basePath), importPath)
        ELSE resolveImportPath(importPath, tsConfig, files)
  IN  aliasProbes + ProbeCount(unprobed, files) + 1

(***************************************************************************)
(* Syntax trees (the nodes of @swc/core that the rewriter looks at).       *)
(***************************************************************************)
Null == [type |-> "Null"]

IsNull(x) == x.type = "Null"

Identifier(v) == [type |-> "Identifier", value |-> v]

StringLiteral(v) == [type |-> "StringLiteral", value |-> v]

\* an expression without identifiers: a number, a string, an object literal
Literal(raw) == [type |-> "Literal", raw |-> raw]

RequireCall(p) ==
  [type |-> "CallExpression", callee |-> Identifier("require"),
   arguments |-> <<[expression |-> StringLiteral(p)]>>]

VariableDeclarator(name, init) ==
  [type |-> "VariableDeclarator", id |-> Identifier(name), init |-> init]

VariableDeclaration(declarations) ==
  [type |-> "VariableDeclaration", kind |-> "const", declarations |-> declarations]

Const(name, init) == VariableDeclaration(<<VariableDeclarator(name, init)>>)

FunctionDeclaration(name, fbody) ==
  [type |-> "FunctionDeclaration", identifier |-> Identifier(name), fbody |-> fbody]

ImportDefaultSpecifier(local) ==
  [type |-> "ImportDefaultSpecifier", local |-> Identifier(local)]

ImportNamespaceSpecifier(local) ==
  [type |-> "ImportNamespaceSpecifier", local |-> Identifier(local)]

\* import { a }: imported is null; import { y as z }: imported is y
ImportSpecifier(imported, local) ==
  [type |-> "ImportSpecifier", local |-> Identifier(local),
   imported |-> IF imported = NoName THEN Null ELSE Identifier(imported)]

ImportDeclaration(source, specifiers) ==
  [type |-> "ImportDeclaration", source |-> StringLiteral(source),
   specifiers |-> specifiers]

ExportDeclaration(declaration) ==
  [type |-> "ExportDeclaration", declaration |-> declaration]

\* export { a }: exported is null; export { x as y }: exported is y
ExportSpecifier(orig, exported) ==
  [type |-> "ExportSpecifier", orig |-> Identifier(orig),
   exported |-> IF exported = NoName THEN Null ELSE Identifier(exported)]

ExportNamedDeclaration(specifiers) ==
  [type |-> "ExportNamedDeclaration", specifiers |-> specifiers]

ExportDefaultExpression(expression) ==
  [type |-> "ExportDefaultExpression", expression |-> expression]

ExportAllDeclaration(source) ==
  [type |-> "ExportAllDeclaration", source |-> StringLiteral(source)]

ExpressionStatement(expression) ==
  [type |-> "ExpressionStatement", expression |-> expression]

MemberExpression(object, property) ==
  [type |-> "MemberExpression", object |-> object, property |-> property]

AssignmentExpression(left, right) ==
  [type |-> "AssignmentExpression", operator |-> "=", left |-> left, right |-> right]

\* module.exports.<name>
ModuleExportsMember(name) ==
  MemberExpression(MemberExpression(Identifier("module"), Identifier("exports")),
                   Identifier(name))

createExportAssignment(name, value) ==
  ExpressionStatement(AssignmentExpression(ModuleExportsMember(name), Identifier(value)))

FunctionExpression(name, fbody) ==
  [type |-> "FunctionExpression",
   identifier |-> IF name = NoName THEN Null ELSE Identifier(name), fbody |-> fbody]

ExportDefaultDeclaration(decl) == [type |-> "ExportDefaultDeclaration", decl |-> decl]

TsExportAssignment(expression) ==
  [type |-> "TsExportAssignment", expression |-> expression]

\* import('<p>'): a call whose callee is the Import node
DynamicImport(p) ==
  [type |-> "CallExpression", callee |-> [type |-> "Import"],
   arguments |-> <<[expression |-> StringLiteral(p)]>>]

\* () => <body>
ArrowFunctionExpression(body) == [type |-> "ArrowFunctionExpression", body |-> body]

\* (x as Identifier).value, undefined when x is no identifier
ValueOf(x) == IF x.type = "Identifier" THEN x.value ELSE NoName

(***************************************************************************)
(* Export/Import Rewriter: the cases of transformNode that neither resolve *)
(* a specifier nor recurse.  The result is the list of nodes that replace  *)
(* the node in its parent (null: none, an array: several).                 *)
(***************************************************************************)
\* case 'ExportDeclaration'
TransformExportDeclaration(node, isEntryPoint) ==
  LET decl == node.declaration
      id == IF decl.type \in {"FunctionDeclaration", "ClassDeclaration"}
              THEN (IF IsNull(decl.identifier) THEN NoName ELSE decl.identifier.value)
            ELSE IF decl.type = "VariableDeclaration"
                    /\ Len(decl.declarations) > 0
                    /\ decl.declarations[1].id.type = "Identifier"
              THEN decl.declarations[1].id.value
            ELSE NoName
  IN  IF ~isEntryPoint THEN <<decl>>
      ELSE IF id # NoName THEN <<decl, createExportAssignment(id, id)>>
      ELSE <<decl>>

\* case 'ExportNamedDeclaration'
TransformExportNamedDeclaration(node) ==
  LET specs == SelectSeq(node.specifiers, LAMBDA sp : sp.type = "ExportSpecifier")
  IN  [k \in DOMAIN specs |->
         createExportAssignment(
           IF IsNull(specs[k].exported) THEN specs[k].orig.value
           ELSE specs[k].exported.value,
           specs[k].orig.value)]

\* case 'ExportDefaultExpression'
TransformExportDefaultExpression(node, isEntryPoint) ==
  LET expression == node.expression
  IN  IF ~isEntryPoint THEN <<ExpressionStatement(expression)>>
      ELSE IF expression.type = "Identifier"
        THEN <<createExportAssignment("default", expression.value)>>
      ELSE <<ExpressionStatement(
               AssignmentExpression(ModuleExportsMember("default"), expression))>>

\* case 'TsExportAssignment'
TransformTsExportAssignment(node) ==
  <<ExpressionStatement(
      AssignmentExpression(
        MemberExpression(Identifier("module"), Identifier("exports")),
        node.expression))>>

\* case 'ExpressionStatement'
TransformExpressionStatement(node) ==
  IF node.expression.type = "AssignmentExpression"
     /\ node.expression.left.type = "MemberExpression"
    THEN LET left == node.expression.left
             right == node.expression.right
             obj == ValueOf(left.object)
             prop == ValueOf(left.property)
         IN  IF obj = "module" /\ prop = "exports"
               THEN IF EndsWith(right.type, "Declaration") THEN <<right>>
                    ELSE <<ExpressionStatement(right)>>
             ELSE IF obj = "exports" /\ right.type = "FunctionExpression"
                     /\ ~IsNull(right.identifier)
               THEN <<[type |-> "FunctionDeclaration",
                       identifier |-> right.identifier, fbody |-> right.fbody]>>
             ELSE <<node>>
    ELSE <<node>>

\* case 'CallExpression'
TransformCallExpression(node) ==
  IF node.callee.type = "Import" THEN [node EXCEPT !.callee = Identifier("require")]
  ELSE node

\* visit of an expression: transformNode on it, then visit of its children
RECURSIVE visitExpression(_)
visitExpression(x) ==
  CASE x.type = "CallExpression" ->
         [TransformCallExpression(x) EXCEPT
            !.arguments = [k \in DOMAIN @ |->
                             [expression |-> visitExpression(@[k].expression)]]]
    [] x.type = "ArrowFunctionExpression" -> [x EXCEPT !.body = visitExpression(@)]
    [] x.type = "AssignmentExpression" ->
         [x EXCEPT !.left = visitExpression(@), !.right = visitExpression(@)]
    [] x.type = "MemberExpression" ->
         [x EXCEPT !.object = visitExpression(@), !.property = visitExpression(@)]
    [] OTHER -> x

\* visit of the keys of a node that transformNode returned as a single node
visitKeys(node) ==
  CASE node.type = "VariableDeclaration" ->
         [node EXCEPT !.declarations =
            [k \in DOMAIN @ |-> [@[k] EXCEPT !.init = visitExpression(@)]]]
    [] node.type = "ExpressionStatement" ->
         [node EXCEPT !.expression = visitExpression(@)]
    [] OTHER -> node

\* transformNode returned an array: visit hands it on without visiting it
ReturnsArray(node, isEntryPoint) ==
  CASE node.type = "ExportDeclaration" ->
         isEntryPoint /\ Len(TransformExportDeclaration(node, isEntryPoint)) = 2
    [] node.type = "ExportNamedDeclaration" /\ isHandledNode(node) ->
         Len(TransformExportNamedDeclaration(node)) # 1
    [] OTHER -> FALSE

transformNode(node, isEntryPoint) ==
  IF ~isHandledNode(node) THEN <<node>>
  ELSE CASE node.type = "ExportDeclaration" ->
              TransformExportDeclaration(node, isEntryPoint)
         [] node.type = "ExportNamedDeclaration" ->
              TransformExportNamedDeclaration(node)
         [] node.type = "ExportDefaultExpression" ->
              TransformExportDefaultExpression(node, isEntryPoint)
         [] node.type = "ExportDefaultDeclaration" -> <<node.decl>>
         [] node.type = "TsExportAssignment" -> TransformTsExportAssignment(node)
         [] node.type = "TsNamespaceExportDeclaration" -> <<>>
         [] node.type = "ExpressionStatement" -> TransformExpressionStatement(node)
         [] OTHER -> <<node>>

(***************************************************************************)
(* External-import registry: the statements synthesized into               *)
(* externalImportSet.  A destructuring part 'a: b' is [key a, name b], a   *)
(* part 'a' is [key a, name a].                                            *)
(***************************************************************************)
\* const __shim_dirname = __dirname; const __shim_filename = __filename;
\* const { pathToFileURL } = require('url');
Shim == [type |-> "Shim"]

\* const <name> = require('<module>');
ConstRequire(name, module) ==
  [type |-> "ConstRequire", name |-> name, module |-> module]

\* const { <parts> } = require('<module>');
ConstRequireObject(parts, module) ==
  [type |-> "ConstRequireObject", parts |-> parts, module |-> module]

\* the ImportClause of one import specifier of an external module
ImportClauseOf(specifier) ==
  CASE specifier.type = "ImportDefaultSpecifier" ->
         <<[type |-> "default", name |-> specifier.local.value]>>
    [] specifier.type = "ImportNamespaceSpecifier" ->
         <<[type |-> "namespace", name |-> specifier.local.value]>>
    [] specifier.type = "ImportSpecifier" ->
         <<[type |-> "named",
            original |-> IF IsNull(specifier.imported) THEN specifier.local.value
                         ELSE specifier.imported.value,
            alias |-> IF IsNull(specifier.imported) THEN NoName
                      ELSE specifier.local.value]>>
    [] OTHER -> <<>>

\* externalImportMap.get(importPath), created empty when absent, plus the clauses
AddClauses(externalImportMap, importPath, clauses) ==
  IF \E k \in DOMAIN externalImportMap : externalImportMap[k].module = importPath
    THEN [k \in DOMAIN externalImportMap |->
            IF externalImportMap[k].module = importPath
              THEN [externalImportMap[k] EXCEPT !.clauses = @ \o clauses]
              ELSE externalImportMap[k]]
    ELSE Append(externalImportMap, [module |-> importPath, clauses |-> clauses])

\* the statements one entry of externalImportMap is flushed to, in order
StatementsOf(entry) ==
  LET named == SelectSeq(entry.clauses, LAMBDA c : c.type = "named")
      namedImportParts ==
        [k \in DOMAIN named |->
           IF named[k].alias # NoName /\ named[k].original # named[k].alias
             THEN [key |-> named[k].original, name |-> named[k].alias]
             ELSE [key |-> named[k].original, name |-> named[k].original]]
      defaults == SelectSeq(entry.clauses, LAMBDA c : c.type = "default")
      defaultImports == [k \in DOMAIN defaults |-> defaults[k].name]
      namespaces == SelectSeq(entry.clauses, LAMBDA c : c.type = "namespace")
      namespaceImports == [k \in DOMAIN namespaces |-> namespaces[k].name]
      uniqueDefaults == Unique(defaultImports)
      uniqueNamespaces == Unique(namespaceImports)
  IN  (IF Len(namedImportParts) > 0
         THEN <<ConstRequireObject(Unique(namedImportParts), entry.module)>>
         ELSE <<>>)
      \o [k \in DOMAIN uniqueDefaults |-> ConstRequire(uniqueDefaults[k], entry.module)]
      \o [k \in DOMAIN uniqueNamespaces |->
            ConstRequire(uniqueNamespaces[k], entry.module)]

\* the loop over externalImportMap.entries() at the end of fullCodeGen
FlushExternalImports(externalImportMap, externalImportSet) ==
  SetAddAll(externalImportSet,
            Flatten([k \in DOMAIN externalImportMap |->
                       StatementsOf(externalImportMap[k])]))

\* the local names a registry statement binds
BoundNames(stmt) ==
  CASE stmt.type = "ConstRequire" -> {stmt.name}
    [] stmt.type = "ConstRequireObject" -> {stmt.parts[k].name : k \in DOMAIN stmt.parts}
    [] stmt.type = "Shim" -> {"__shim_dirname", "__shim_filename", "pathToFileURL"}
    [] OTHER -> {}

(***************************************************************************)
(* Execution Host: what `new Function(..., finalBundle)` and its call do   *)
(* with the assembled program, as far as bindings and module.exports are   *)
(* concerned.                                                              *)
(***************************************************************************)
LitValue(raw) == [k |-> "lit", v |-> raw, member |-> NoName]

FnValue(fbody) == [k |-> "fn", v |-> fbody, member |-> NoName]

\* require(<module>), or its property <member>
ModValue(module, member) == [k |-> "mod", v |-> module, member |-> member]

\* statements that are a SyntaxError inside a function body
moduleSyntaxTypes ==
  {"ImportDeclaration", "ExportDeclaration", "ExportNamedDeclaration",
   "ExportDefaultExpression", "ExportDefaultDeclaration", "ExportAllDeclaration",
   "TsExportAssignment", "TsNamespaceExportDeclaration"}

IsFunctionStatement(stmt) ==
  stmt.type \in {"FunctionDeclaration", "FunctionExpression"}

\* the const bindings of a statement, in order
LexicalNames(stmt) ==
  CASE stmt.type = "VariableDeclaration" ->
         [k \in DOMAIN stmt.declarations |-> stmt.declarations[k].id.value]
    [] stmt.type = "ConstRequire" -> <<stmt.name>>
    [] stmt.type = "ConstRequireObject" ->
         [k \in DOMAIN stmt.parts |-> stmt.parts[k].name]
    [] stmt.type = "Shim" -> <<"__shim_dirname", "__shim_filename", "pathToFileURL">>
    [] OTHER -> <<>>

FunctionNames(program) ==
  {program[k].identifier.value :
     k \in {j \in DOMAIN program : IsFunctionStatement(program[j])
                                   /\ ~IsNull(program[j].identifier)}}

\* the function body is rejected when it is compiled
HasSyntaxError(program) ==
  LET lexical == Flatten([k \in DOMAIN program |-> LexicalNames(program[k])])
  IN  \/ \E k \in DOMAIN program : program[k].type \in moduleSyntaxTypes
      \/ \E k \in DOMAIN program :
           program[k].type = "FunctionExpression" /\ IsNull(program[k].identifier)
      \/ Cardinality(Range(lexical)) # Len(lexical)
      \/ Range(lexical) \cap FunctionNames(program) # {}

\* function declarations are initialised before the first statement runs
HoistedEnv(program) ==
  [n \in FunctionNames(program) |->
     LET ks == {k \in DOMAIN program : IsFunctionStatement(program[k])
                                       /\ ~IsNull(program[k].identifier)
                                       /\ program[k].identifier.value = n}
     IN  FnValue(program[MaxOf(ks)].fbody)]

\* the identifiers an expression reads
FreeNames(expr) ==
  CASE expr.type = "Identifier" -> {expr.value}
    [] expr.type = "AssignmentExpression" ->
         IF expr.right.type = "Identifier" THEN {expr.right.value} ELSE {}
    [] OTHER -> {}

Eval(expr, env) ==
  CASE expr.type = "Identifier" -> env[expr.value]
    [] expr.type = "Literal" -> LitValue(expr.raw)
    [] expr.type = "CallExpression" ->
         ModValue(expr.arguments[1].expression.value, NoName)
    [] expr.type = "FunctionExpression" -> FnValue(expr.fbody)
    [] OTHER -> LitValue("?")

Bind(env, name, val) == (name :> val) @@ env

RECURSIVE BindDeclarators(_, _)
BindDeclarators(st, ds) ==
  IF ds = <<>> \/ st.error # "" THEN st
  ELSE IF ~(FreeNames(Head(ds).init) \subseteq DOMAIN st.env)
    THEN [st EXCEPT !.error = "ReferenceError"]
  ELSE BindDeclarators(
         [st EXCEPT !.env = Bind(@, Head(ds).id.value, Eval(Head(ds).init, st.env))],
         Tail(ds))

RECURSIVE BindParts(_, _, _)
BindParts(env, parts, module) ==
  IF parts = <<>> THEN env
  ELSE BindParts(Bind(env, Head(parts).name, ModValue(module, Head(parts).key)),
                 Tail(parts), module)

\* module.exports.<name> = ..., or exports.<name> = ... (the `exports`
\* parameter of the function is moduleObj.exports)
IsNamespaceAssignment(stmt) ==
  /\ stmt.type = "ExpressionStatement"
  /\ stmt.expression.type = "AssignmentExpression"
  /\ stmt.expression.left.type = "MemberExpression"
  /\ stmt.expression.left.object \in
       {MemberExpression(Identifier("module"), Identifier("exports")), Identifier("exports")}

ExecStatement(st, stmt) ==
  CASE stmt.type = "Shim" ->
         [st EXCEPT !.env = Bind(Bind(Bind(@, "__shim_dirname", LitValue("__dirname")),
                                      "__shim_filename", LitValue("__filename")),
                                 "pathToFileURL", ModValue("url", "pathToFileURL"))]
    [] stmt.type = "ConstRequire" ->
         [st EXCEPT !.env = Bind(@, stmt.name, ModValue(stmt.module, NoName))]
    [] stmt.type = "ConstRequireObject" ->
         [st EXCEPT !.env = BindParts(@, stmt.parts, stmt.module)]
    [] stmt.type = "VariableDeclaration" -> BindDeclarators(st, stmt.declarations)
    [] stmt.type = "ExpressionStatement" ->
         IF ~(FreeNames(stmt.expression) \subseteq DOMAIN st.env)
           THEN [st EXCEPT !.error = "ReferenceError"]
         ELSE IF IsNamespaceAssignment(stmt)
           THEN [st EXCEPT !.exports = Bind(@, stmt.expression.left.property.value,
                                            Eval(stmt.expression.right, st.env))]
         ELSE st
    [] OTHER -> st

RECURSIVE ExecFrom(_, _, _)
ExecFrom(program, k, st) ==
  IF k > Len(program) \/ st.error # "" THEN st
  ELSE ExecFrom(program, k + 1, ExecStatement(st, program[k]))

\* new Function(...params, finalBundle) and scriptFunction(...): the exports
\* object on success, the error thrown otherwise (env: the bindings at the end)
RunBundle(program) ==
  IF HasSyntaxError(program)
    THEN [error |-> "SyntaxError", exports |-> <<>>, env |-> <<>>]
    ELSE ExecFrom(program, 1,
                  [error |-> "", exports |-> <<>>, env |-> HoistedEnv(program)])

(***************************************************************************)
(* Source text, the caches and the Syntax Transpiler.                      *)
(***************************************************************************)
\* source text: its dialect and the statements it parses to
Code(lang, body) == [lang |-> lang, body |-> body]

NoCode == Code("", <<>>)

\* @swc/core transformSync: the text with the type syntax lowered to plain syntax
transformSync(source, ext) == Code("js", source.body)

\* @swc/core parse: the body of the Module node
parse(code) == code.body

\* @swc/core print of the rewritten tree
printAst(body) == body

\* [content, cache, read]: read tells that readFileSync was called
readFileCached(path, cache, files) ==
  IF path \in DOMAIN cache
    THEN [content |-> cache[path], cache |-> cache, read |-> FALSE]
    ELSE [content |-> readFileSync(path, files),
          cache |-> MapPut(cache, path, readFileSync(path, files)),
          read |-> TRUE]

\* as transformer, without the lookup in the cache
transformerAlwaysTranspiles(source, ext, filePath, cache) ==
  [code |-> transformSync(source, ext),
   cache |-> MapPut(cache, filePath, transformSync(source, ext)),
   called |-> TRUE]

\* as transformer, with the cache keyed by the extension
transformerKeyedByExtension(source, ext, filePath, cache) ==
  IF ext \in DOMAIN cache
    THEN [code |-> cache[ext], cache |-> cache, called |-> FALSE]
    ELSE [code |-> transformSync(source, ext),
          cache |-> MapPut(cache, ext, transformSync(source, ext)),
          called |-> TRUE]

\* [code, cache, called]: called tells that transformSync was called
transformer(source, ext, filePath, cache) ==
  IF filePath \in DOMAIN cache
    THEN [code |-> cache[filePath], cache |-> cache, called |-> FALSE]
    ELSE [code |-> transformSync(source, ext),
          cache |-> MapPut(cache, filePath, transformSync(source, ext)),
          called |-> TRUE]

(***************************************************************************)
(* One invocation of execute / executeCode.                                *)
(*   stack: the activations of fullCodeGen, the running one last.          *)
(*   io, xlog: what the invocation asked of the filesystem and of the      *)
(*   transpiler (observations, read by no step).                           *)
(***************************************************************************)
NoResult == [error |-> "", exports |-> <<>>, env |-> <<>>]

NoIo == [reads |-> 0, exists |-> 0, parses |-> 0]

NewInvocation(api, code, filePath) ==
  [status |-> "running", api |-> api, code |-> code, filePath |-> filePath,
   processedFiles |-> {}, bundleStack |-> <<>>, externalImportSet |-> <<>>,
   stack |-> <<>>, finalBundle |-> <<>>, result |-> NoResult, error |-> "",
   io |-> NoIo, xlog |-> <<>>]

IdleInvocation == [NewInvocation("", NoCode, "") EXCEPT !.status = "idle"]

Fail(iv, error) == [iv EXCEPT !.status = "failed", !.error = error]

\* an activation of fullCodeGen that got past the visited test
Frame(code, basePath, isEntryPoint) ==
  [code |-> code, basePath |-> basePath, isEntryPoint |-> isEntryPoint,
   phase |-> "parse", ast |-> <<>>, pc |-> 1, out |-> <<>>,
   externalImportMap |-> <<>>, declarations |-> <<>>]

Top(iv) == iv.stack[Len(iv.stack)]

SetTop(iv, frame) == [iv EXCEPT !.stack[Len(iv.stack)] = frame]

\* the node the running activation visits next
CurrentNode(iv) == Top(iv).ast[Top(iv).pc]

Visiting(iv) ==
  /\ iv.status = "running"
  /\ iv.stack # <<>>
  /\ Top(iv).phase = "visit"
  /\ Top(iv).pc <= Len(Top(iv).ast)

\* a step's outcome: the invocation and the two process-wide caches
State(iv, tc, fc) == [iv |-> iv, tc |-> tc, fc |-> fc]

\* as fullCodeGen, without processedFiles.add(basePath)
fullCodeGenNeverMarks(iv, code, basePath, entryPoint, declarations) ==
  LET actualEntryPoint == IF entryPoint = NoName THEN basePath ELSE entryPoint
      isEntryPoint == basePath = actualEntryPoint
      caller == IF iv.stack = <<>> THEN iv
                ELSE SetTop(iv, [Top(iv) EXCEPT
                                   !.declarations = declarations,
                                   !.phase = IF basePath \in iv.processedFiles
                                               THEN "resume" ELSE "await"])
  IN  IF basePath \in iv.processedFiles THEN caller
      ELSE [caller EXCEPT
              !.externalImportSet = SetAdd(@, Shim),
              !.stack = Append(@, Frame(code, basePath, isEntryPoint))]

\* as fullCodeGen, without the test of processedFiles.has(basePath)
fullCodeGenRevisits(iv, code, basePath, entryPoint, declarations) ==
  LET actualEntryPoint == IF entryPoint = NoName THEN basePath ELSE entryPoint
      isEntryPoint == basePath = actualEntryPoint
      caller == IF iv.stack = <<>> THEN iv
                ELSE SetTop(iv, [Top(iv) EXCEPT !.declarations = declarations,
                                                !.phase = "await"])
  IN  [caller EXCEPT
         !.processedFiles = @ \cup {basePath},
         !.externalImportSet = SetAdd(@, Shim),
         !.stack = Append(@, Frame(code, basePath, isEntryPoint))]

\* as fullCodeGen, called without await: the caller goes on at once
fullCodeGenNotAwaited(iv, code, basePath, entryPoint, declarations) ==
  LET actualEntryPoint == IF entryPoint = NoName THEN basePath ELSE entryPoint
      isEntryPoint == basePath = actualEntryPoint
      caller == IF iv.stack = <<>> THEN iv
                ELSE SetTop(iv, [Top(iv) EXCEPT !.declarations = declarations,
                                                !.phase = "resume"])
  IN  IF basePath \in iv.processedFiles THEN caller
      ELSE [caller EXCEPT
              !.processedFiles = @ \cup {basePath},
              !.externalImportSet = SetAdd(@, Shim),
              !.stack = Append(@, Frame(code, basePath, isEntryPoint))]

\* fullCodeGen up to its first await: the visited test, the mark, the shim.
\* A visited path returns at once; the caller goes on with `declarations`.
fullCodeGen(iv, code, basePath, entryPoint, declarations) ==
  LET actualEntryPoint == IF entryPoint = NoName THEN basePath ELSE entryPoint
      isEntryPoint == basePath = actualEntryPoint
      caller == IF iv.stack = <<>> THEN iv
                ELSE SetTop(iv, [Top(iv) EXCEPT
                                   !.declarations = declarations,
                                   !.phase = IF basePath \in iv.processedFiles
                                               THEN "resume" ELSE "await"])
  IN  IF basePath \in iv.processedFiles THEN caller
      ELSE [caller EXCEPT
              !.processedFiles = @ \cup {basePath},
              !.externalImportSet = SetAdd(@, Shim),
              !.stack = Append(@, Frame(code, basePath, isEntryPoint))]

\* processInternalModule, the caller's alias declarations kept for its return
processInternalModule(s, resolvedPath, declarations, files) ==
  LET rd == readFileCached(resolvedPath, s.fc, files)
      depExt == extname(resolvedPath)
      tr == IF depExt \in jsExtensions
              THEN [code |-> rd.content, cache |-> s.tc, called |-> FALSE]
              ELSE transformer(rd.content, depExt, resolvedPath, s.tc)
      logged == [s.iv EXCEPT
                   !.io.reads = @ + (IF rd.read THEN 1 ELSE 0),
                   !.xlog = IF depExt \in jsExtensions THEN @
                            ELSE Append(@, [path |-> resolvedPath, code |-> tr.code,
                                            called |-> tr.called])]
  IN  State(fullCodeGen(logged, tr.code, resolvedPath, s.iv.filePath, declarations),
            tr.cache, rd.cache)

(***************************************************************************)
(* Graph Inliner: the steps of one invocation, each from one await to the  *)
(* next.  A step maps State(iv, tc, fc) to the next State.                 *)
(***************************************************************************)
\* the rewriter returned `nodes` for the current node: on to the next one
Advance(iv, nodes) ==
  SetTop(iv, [Top(iv) EXCEPT !.pc = @ + 1, !.out = @ \o nodes])

CountExists(iv, n) == [iv EXCEPT !.io.exists = @ + n]

\* importPath.split('/').pop()?.split('.').shift() ?? ''
ModuleNameOf(importPath) ==
  LET seg == basename(importPath)
      dots == IndicesOf(seg, ".")
  IN  IF dots = {} THEN seg
      ELSE IF MinOf(dots) = 1 THEN ""
      ELSE SubSeq(seg, 1, MinOf(dots) - 1)

\* `const <local> = <init>;` of one specifier of an internal import
AliasDeclarationOf(specifier, importPath, resolvedPath) ==
  CASE specifier.type = "ImportDefaultSpecifier" ->
         IF ModuleNameOf(importPath) # ""
            /\ specifier.local.value # ModuleNameOf(importPath)
           THEN <<VariableDeclarator(specifier.local.value,
                                     Identifier(ModuleNameOf(importPath)))>>
           ELSE <<>>
    [] specifier.type = "ImportSpecifier" ->
         IF ~IsNull(specifier.imported)
            /\ specifier.local.value # specifier.imported.value
           THEN <<VariableDeclarator(specifier.local.value,
                                     Identifier(specifier.imported.value))>>
           ELSE <<>>
    [] specifier.type = "ImportNamespaceSpecifier" ->
         <<VariableDeclarator(specifier.local.value, RequireCall(resolvedPath))>>
    [] OTHER -> <<>>

\* the declarations pushed after an internal import, one statement each
AliasDeclarations(node, resolvedPath) ==
  LET ds == Flatten([k \in DOMAIN node.specifiers |->
                       AliasDeclarationOf(node.specifiers[k], node.source.value,
                                          resolvedPath)])
  IN  [k \in DOMAIN ds |-> VariableDeclaration(<<ds[k]>>)]

\* an entry of bundleStack: the text pushed, whether it is the fragment of a
\* file or the alias declarations of an import, and the file it comes from
StackEntry(file, fragment, body) ==
  [file |-> file, fragment |-> fragment, body |-> body]

\* as processImportDeclaration, without the test of excludedExtensions
processImportDeclarationKeepsAssets(s, proj) ==
  LET iv == s.iv
      node == CurrentNode(iv)
      importPath == node.source.value
      basePath == Top(iv).basePath
      tsConfig == loadTsConfig(proj)
      resolvedPath == ResolveSpecifier(importPath, basePath, tsConfig, proj.files)
      counted == CountExists(iv, ExistsCalls(importPath, basePath, tsConfig, proj.files))
      clauses == Flatten([k \in DOMAIN node.specifiers |->
                            ImportClauseOf(node.specifiers[k])])
  IN  IF ~existsSync(resolvedPath, proj.files)
        THEN State(Advance(SetTop(counted,
                                  [Top(counted) EXCEPT !.externalImportMap =
                                     AddClauses(@, importPath, clauses)]),
                           <<>>),
                   s.tc, s.fc)
      ELSE processInternalModule(State(counted, s.tc, s.fc), resolvedPath,
                                 AliasDeclarations(node, resolvedPath), proj.files)

processImportDeclaration(s, proj) ==
  LET iv == s.iv
      node == CurrentNode(iv)
      importPath == node.source.value
      basePath == Top(iv).basePath
      tsConfig == loadTsConfig(proj)
      resolvedPath == ResolveSpecifier(importPath, basePath, tsConfig, proj.files)
      counted == CountExists(iv, ExistsCalls(importPath, basePath, tsConfig, proj.files))
      clauses == Flatten([k \in DOMAIN node.specifiers |->
                            ImportClauseOf(node.specifiers[k])])
  IN  IF extname(importPath) \in excludedExtensions
        THEN State(Advance(iv, <<>>), s.tc, s.fc)
      ELSE IF ~existsSync(resolvedPath, proj.files)
        THEN State(Advance(SetTop(counted,
                                  [Top(counted) EXCEPT !.externalImportMap =
                                     AddClauses(@, importPath, clauses)]),
                           <<>>),
                   s.tc, s.fc)
      ELSE processInternalModule(State(counted, s.tc, s.fc), resolvedPath,
                                 AliasDeclarations(node, resolvedPath), proj.files)

processVariableDeclaration(s, proj) ==
  LET iv == s.iv
      node == CurrentNode(iv)
      declaration == node.declarations[1]
      requirePath == declaration.init.arguments[1].expression.value
      basePath == Top(iv).basePath
      tsConfig == loadTsConfig(proj)
      resolvedPath == ResolveSpecifier(requirePath, basePath, tsConfig, proj.files)
      counted == CountExists(iv, ExistsCalls(requirePath, basePath, tsConfig, proj.files))
  IN  IF Len(node.declarations) = 0 \/ declaration.init.type # "CallExpression"
        THEN State(Advance(iv, <<visitKeys(node)>>), s.tc, s.fc)
      ELSE IF ValueOf(declaration.init.callee) # "require"
        THEN State(Advance(iv, <<visitKeys(node)>>), s.tc, s.fc)
      ELSE IF ~existsSync(resolvedPath, proj.files)
        THEN State(Advance(IF declaration.id.type = "Identifier"
                             THEN [counted EXCEPT !.externalImportSet =
                                     SetAdd(@, ConstRequire(declaration.id.value,
                                                            requirePath))]
                             ELSE counted,
                           <<>>),
                   s.tc, s.fc)
      ELSE processInternalModule(State(counted, s.tc, s.fc), resolvedPath, <<>>,
                                 proj.files)

\* case 'ExportAllDeclaration'
processExportAllDeclaration(s, proj) ==
  LET iv == s.iv
      exportPath == CurrentNode(iv).source.value
      basePath == Top(iv).basePath
      tsConfig == loadTsConfig(proj)
      resolvedPath == ResolveSpecifier(exportPath, basePath, tsConfig, proj.files)
      counted == CountExists(iv, ExistsCalls(exportPath, basePath, tsConfig, proj.files))
  IN  IF existsSync(resolvedPath, proj.files)
        THEN processInternalModule(State(counted, s.tc, s.fc), resolvedPath, <<>>,
                                   proj.files)
        ELSE State(Advance(counted, <<>>), s.tc, s.fc)

\* every other node kind: transformNode decides alone
rewriteNode(s) ==
  LET node == CurrentNode(s.iv)
      isEntryPoint == Top(s.iv).isEntryPoint
      transformedNode == transformNode(node, isEntryPoint)
  IN  State(Advance(s.iv,
                    IF ReturnsArray(node, isEntryPoint) THEN transformedNode
                    ELSE [k \in DOMAIN transformedNode |->
                            visitKeys(transformedNode[k])]),
            s.tc, s.fc)

\* `await parse(code, ...)` returned
parsed(s) ==
  State([SetTop(s.iv, [Top(s.iv) EXCEPT !.ast = parse(Top(s.iv).code), !.phase = "visit"])
           EXCEPT !.io.parses = @ + 1],
        s.tc, s.fc)

\* `await processInternalModule(...)` returned: push the alias declarations
resumed(s) ==
  LET f == Top(s.iv)
      withDecls == IF Len(f.declarations) > 0
                     THEN [s.iv EXCEPT !.bundleStack =
                             Append(@, StackEntry(f.basePath, FALSE, f.declarations))]
                     ELSE s.iv
  IN  State(SetTop(withDecls, [f EXCEPT !.phase = "visit", !.pc = @ + 1,
                                     !.declarations = <<>>]),
            s.tc, s.fc)

\* `await visit(ast)` returned: flush externalImportMap, call print
flushed(s) ==
  State(SetTop([s.iv EXCEPT !.externalImportSet =
                  FlushExternalImports(Top(s.iv).externalImportMap, @)],
               [Top(s.iv) EXCEPT !.phase = "print"]),
        s.tc, s.fc)

\* as pushed, with the fragment put at the front of bundleStack (unshift)
pushedAtFront(s) ==
  LET f == Top(s.iv)
      popped == [s.iv EXCEPT
                   !.bundleStack = <<StackEntry(f.basePath, TRUE, printAst(f.out))>> \o @,
                   !.stack = Front(@)]
  IN  State(IF popped.stack = <<>> THEN popped
            ELSE SetTop(popped, [Top(popped) EXCEPT !.phase = "resume"]),
            s.tc, s.fc)

\* `await print(...)` returned: push the fragment; fullCodeGen returns
pushed(s) ==
  LET f == Top(s.iv)
      popped == [s.iv EXCEPT
                   !.bundleStack = Append(@, StackEntry(f.basePath, TRUE, printAst(f.out))),
                   !.stack = Front(@)]
  IN  State(IF popped.stack = <<>> THEN popped
            ELSE SetTop(popped, [Top(popped) EXCEPT !.phase = "resume"]),
            s.tc, s.fc)

\* as FinalBundle, with the stack joined in front of the registry
FinalBundleStackFirst(externalImportSet, bundleStack) ==
  Flatten([k \in DOMAIN bundleStack |-> bundleStack[k].body]) \o externalImportSet

\* [...externalImportSet].join('\n') + '\n' + bundleStack.join('\n')
FinalBundle(externalImportSet, bundleStack) ==
  externalImportSet \o Flatten([k \in DOMAIN bundleStack |-> bundleStack[k].body])

\* the rest of _execute once fullCodeGen has returned
assembled(s) ==
  LET finalBundle == FinalBundle(s.iv.externalImportSet, s.iv.bundleStack)
      result == RunBundle(finalBundle)
  IN  State([s.iv EXCEPT !.finalBundle = finalBundle,
                         !.result = result,
                         !.error = result.error,
                         !.status = IF result.error = "" THEN "done" ELSE "failed"],
            s.tc, s.fc)

\* _execute up to the first await of fullCodeGen
_execute(s, code, filePath) ==
  LET ext == extname(filePath)
      tr == IF ext \in jsExtensions
              THEN [code |-> code, cache |-> s.tc, called |-> FALSE]
              ELSE transformer(code, ext, filePath, s.tc)
      logged == [s.iv EXCEPT !.xlog =
                   IF ext \in jsExtensions THEN @
                   ELSE Append(@, [path |-> filePath, code |-> tr.code,
                                   called |-> tr.called])]
  IN  IF ext \notin Range(extensions)
        THEN State(Fail(s.iv, "Unsupported file extension"), s.tc, s.fc)
        ELSE State(fullCodeGen(logged, tr.code, filePath, NoName, <<>>), tr.cache, s.fc)

\* execute(filePath): the file is read, then _execute
execute(tc, fc, filePath, files) ==
  LET iv == NewInvocation("execute", NoCode, filePath)
      readIt == [iv EXCEPT !.io.reads = 1]
  IN  IF filePath \in DOMAIN fc
        THEN _execute(State([iv EXCEPT !.code = fc[filePath]], tc, fc),
                      fc[filePath], filePath)
      ELSE IF ~existsSync(filePath, files)
        THEN State(Fail(readIt, "ENOENT"), tc, fc)
      ELSE _execute(State([readIt EXCEPT !.code = readFileSync(filePath, files)], tc,
                          readFileCached(filePath, fc, files).cache),
                    readFileSync(filePath, files), filePath)

\* executeCode(code, { filePath }); filePath defaults to <cwd>/inline.ts
executeCode(tc, fc, code, filePath) ==
  _execute(State(NewInvocation("executeCode", code,
                               IF filePath = NoName THEN resolve(Cwd, "inline.ts")
                               ELSE filePath),
                 tc, fc),
           code,
           IF filePath = NoName THEN resolve(Cwd, "inline.ts") ELSE filePath)

(***************************************************************************)
(* The projects a behaviour may run in: the files on disk, the             *)
(* compilerOptions of tsconfig.json, the paths given to execute and the    *)
(* (code, filePath) pairs given to executeCode.                            *)
(***************************************************************************)
Project(files, tsConfig, entries, snippets) ==
  [files |-> files, tsConfig |-> tsConfig, entries |-> entries, snippets |-> snippets]

Snippet(code, filePath) == [code |-> code, filePath |-> filePath]

\* The texts below use what they import: the transpiler drops an import whose
\* names the text never reads.

\* the text of a function body that reads the given names
RECURSIVE Uses(_)
Uses(names) ==
  IF names = <<>> THEN "return" ELSE Uses(Front(names)) \o " " \o Last(names)

\* every import graph over three files a.ts, b.ts, c.ts without self-imports:
\* file n has `import { f<m> } from './m'` for each edge n -> m and
\* `export function f<n>() { ... f<m> ... }`
Nodes == <<"a", "b", "c">>

NodePath(n) == "/proj/" \o n \o ".ts"

Edges == {e \in Range(Nodes) \X Range(Nodes) : e[1] # e[2]}

GraphFile(n, E) ==
  LET targets == SelectSeq(Nodes, LAMBDA m : <<n, m>> \in E)
  IN  Code("ts",
           [k \in DOMAIN targets |->
              ImportDeclaration("./" \o targets[k],
                                <<ImportSpecifier(NoName, "f" \o targets[k])>>)]
           \o <<ExportDeclaration(
                  FunctionDeclaration("f" \o n,
                                      Uses([k \in DOMAIN targets |-> "f" \o targets[k]])))>>)

GraphProject(E) ==
  Project([p \in {NodePath(n) : n \in Range(Nodes)} |->
             GraphFile(CHOOSE n \in Range(Nodes) : NodePath(n) = p, E)],
          NoTsConfig,
          {NodePath(n) : n \in Range(Nodes)},
          {})

GraphProjects == {GraphProject(E) : E \in SUBSET Edges}

\* export default { a: 1 }; export const a = 2; export function collect() {...}
\* (test/execute-code-api-test.js), and the same exports in the other order
CodeDefaultFirst ==
  Code("ts", <<ExportDefaultExpression(Literal("{ a: 1 }")),
               ExportDeclaration(Const("a", Literal("2"))),
               ExportDeclaration(FunctionDeclaration("collect", "return 'function is collect'"))>>)

CodeDefaultLast ==
  Code("ts", <<ExportDeclaration(FunctionDeclaration("collect", "return 'function is collect'")),
               ExportDeclaration(Const("a", Literal("2"))),
               ExportDefaultExpression(Literal("{ a: 1 }"))>>)

\* export const a = 2, b = 3; export default a;
CodeTwoDeclarators ==
  Code("ts", <<ExportDeclaration(
                 VariableDeclaration(<<VariableDeclarator("a", Literal("2")),
                                       VariableDeclarator("b", Literal("3"))>>)),
               ExportDefaultExpression(Identifier("a"))>>)

\* export function func() { return 123; }   (README, executeCode)
CodeFunc ==
  Code("ts", <<ExportDeclaration(FunctionDeclaration("func", "return 123"))>>)

\* import { helper as h } from './util'; export default h;
CodeUsesUtil ==
  Code("ts", <<ImportDeclaration("./util", <<ImportSpecifier("helper", "h")>>),
               ExportDefaultExpression(Identifier("h"))>>)

SnippetProject ==
  Project([p \in {"/proj/util.ts"} |->
             Code("ts", <<ExportDeclaration(FunctionDeclaration("helper", "return 1"))>>)],
          NoTsConfig,
          {"/proj/util.ts"},
          {Snippet(CodeDefaultFirst, NoName), Snippet(CodeDefaultLast, NoName),
           Snippet(CodeTwoDeclarators, NoName), Snippet(CodeFunc, NoName),
           Snippet(CodeUsesUtil, "/proj/main.ts")})

\* external imports of the same package from several files
ExternalFiles ==
  [p \in {"/proj/main.ts", "/proj/left.ts", "/proj/right.ts", "/proj/wide.ts",
          "/proj/cjs.js"} |->
     CASE p = "/proj/main.ts" ->
            Code("ts", <<ImportDeclaration("pkg", <<ImportSpecifier(NoName, "same")>>),
                         ImportDeclaration("./left", <<>>),
                         ImportDeclaration("./right", <<>>),
                         ExportDefaultExpression(Identifier("same"))>>)
       [] p = "/proj/left.ts" ->
            Code("ts", <<ImportDeclaration("pkg", <<ImportSpecifier(NoName, "same")>>),
                         ImportDeclaration("pkg", <<ImportSpecifier("other", "renamed"),
                                                    ImportDefaultSpecifier("dflt")>>),
                         FunctionDeclaration("useLeft", Uses(<<"same", "renamed", "dflt">>))>>)
       [] p = "/proj/right.ts" ->
            Code("ts", <<ImportDeclaration("pkg", <<ImportNamespaceSpecifier("ns")>>),
                         ImportDeclaration("pkg", <<ImportSpecifier(NoName, "same")>>),
                         FunctionDeclaration("useRight", Uses(<<"ns", "same">>))>>)
       [] p = "/proj/wide.ts" ->
            Code("ts", <<ImportDeclaration("./left", <<>>),
                         ImportDeclaration("pkg", <<ImportSpecifier(NoName, "same"),
                                                    ImportSpecifier(NoName, "extra")>>),
                         FunctionDeclaration("useWide", Uses(<<"same", "extra">>))>>)
       [] p = "/proj/cjs.js" ->
            Code("js", <<Const("fs", RequireCall("fs")),
                         Const("left", RequireCall("./left")),
                         Const("n", Literal("1")),
                         ExportAllDeclaration("./right")>>)]

ExternalProject ==
  Project(ExternalFiles, NoTsConfig, DOMAIN ExternalFiles, {})

\* export { x as y } in a dependency, import { y as z } in the dependent
RenameFiles ==
  [p \in {"/proj/main.ts", "/proj/dep.ts", "/proj/plain.ts", "/proj/user.ts"} |->
     CASE p = "/proj/main.ts" ->
            Code("ts", <<ImportDeclaration("./dep", <<ImportSpecifier("y", "z")>>),
                         ExportDefaultExpression(Identifier("z"))>>)
       [] p = "/proj/dep.ts" ->
            Code("ts", <<Const("x", Literal("1")),
                         ExportNamedDeclaration(<<ExportSpecifier("x", "y")>>)>>)
       [] p = "/proj/plain.ts" ->
            Code("ts", <<ExportDeclaration(Const("y", Literal("2"))),
                         ExportDefaultExpression(Literal("3"))>>)
       [] p = "/proj/user.ts" ->
            Code("ts", <<ImportDeclaration("./plain", <<ImportSpecifier("y", "z"),
                                                        ImportDefaultSpecifier("dflt"),
                                                        ImportNamespaceSpecifier("all")>>),
                         ExportDeclaration(Const("w", Identifier("z"))),
                         FunctionDeclaration("useAll", Uses(<<"dflt", "all">>))>>)]

RenameProject ==
  Project(RenameFiles, NoTsConfig, DOMAIN RenameFiles, {})

\* asset imports, an entry that is no code file, an entry outside the project
\* root, an alias of tsconfig.json, a file that imports itself
MiscFiles ==
  [p \in {"/proj/page.tsx", "/proj/icon.svg", "/proj/data.json", "/out/tool.ts",
          "/proj/src/lib.ts", "/proj/self.ts"} |->
     CASE p = "/proj/page.tsx" ->
            Code("ts", <<ImportDeclaration("./icon.svg", <<ImportDefaultSpecifier("icon")>>),
                         ImportDeclaration("./style.css", <<>>),
                         ImportDeclaration("@/lib", <<ImportSpecifier(NoName, "lib")>>),
                         ImportDeclaration("react", <<ImportDefaultSpecifier("React")>>),
                         ExportDeclaration(Const("page", Identifier("lib"))),
                         ExportDeclaration(
                           FunctionDeclaration("Page", Uses(<<"icon", "React">>)))>>)
       [] p = "/proj/icon.svg" -> Code("svg", <<>>)
       [] p = "/proj/data.json" -> Code("json", <<>>)
       [] p = "/out/tool.ts" ->
            Code("ts", <<ExportDeclaration(Const("tool", Literal("1")))>>)
       [] p = "/proj/src/lib.ts" ->
            Code("ts", <<ExportDeclaration(Const("lib", Literal("1")))>>)
       [] p = "/proj/self.ts" ->
            Code("ts", <<ImportDeclaration("./self", <<ImportSpecifier("again", "loop")>>),
                         ExportDeclaration(FunctionDeclaration("again", Uses(<<"loop">>)))>>)]

MiscProject ==
  Project(MiscFiles,
          [baseUrl |-> ".", paths |-> <<[alias |-> "@/*", targets |-> <<"lib/*", "src/*">>]>>],
          {"/proj/page.tsx", "/proj/data.json", "/out/tool.ts", "/proj/self.ts",
           "/proj/missing.ts", "/proj/notes.txt"},
          {})

\* relative specifiers that resolve to no file: an import and a require call
UnresolvedFiles ==
  [p \in {"/proj/broken.ts", "/proj/broken.cjs"} |->
     CASE p = "/proj/broken.ts" ->
            Code("ts", <<ImportDeclaration("./gone", <<ImportSpecifier(NoName, "gone")>>),
                         ExportDeclaration(Const("broken", Identifier("gone")))>>)
       [] p = "/proj/broken.cjs" ->
            Code("js", <<Const("gone", RequireCall("../lib/gone")),
                         ExpressionStatement(
                           AssignmentExpression(ModuleExportsMember("broken"),
                                                Identifier("gone")))>>)]

UnresolvedProject ==
  Project(UnresolvedFiles, NoTsConfig, DOMAIN UnresolvedFiles, {})

\* two files that import a constant of each other under another name
CycleFiles ==
  [p \in {"/proj/ping.ts", "/proj/pong.ts"} |->
     CASE p = "/proj/ping.ts" ->
            Code("ts", <<ImportDeclaration("./pong", <<ImportSpecifier("pong", "other")>>),
                         ExportDeclaration(Const("ping", Literal("1"))),
                         ExportDeclaration(FunctionDeclaration("usePing", Uses(<<"other">>)))>>)
       [] p = "/proj/pong.ts" ->
            Code("ts", <<ImportDeclaration("./ping", <<ImportSpecifier("ping", "back")>>),
                         ExportDeclaration(Const("pong", Literal("2"))),
                         ExportDeclaration(FunctionDeclaration("usePong", Uses(<<"back">>)))>>)]

CycleProject ==
  Project(CycleFiles, NoTsConfig, DOMAIN CycleFiles, {})

\* export default function main() { return 1 }, and a file that imports it
DefaultDeclarationFiles ==
  [p \in {"/proj/main.ts", "/proj/app.ts"} |->
     CASE p = "/proj/main.ts" ->
            Code("ts", <<ExportDefaultDeclaration(FunctionExpression("main", "return 1"))>>)
       [] p = "/proj/app.ts" ->
            Code("ts", <<ImportDeclaration("./main", <<ImportDefaultSpecifier("main")>>),
                         ExportDeclaration(Const("app", Identifier("main")))>>)]

DefaultDeclarationProject ==
  Project(DefaultDeclarationFiles, NoTsConfig, DOMAIN DefaultDeclarationFiles, {})

\* CommonJS export assignments: module.exports = { a: 1 };
\* exports.count = 1; exports.make = function make() { return 1 };
CommonJsFiles ==
  [p \in {"/proj/whole.cjs", "/proj/named.cjs"} |->
     CASE p = "/proj/whole.cjs" ->
            Code("js", <<ExpressionStatement(
                           AssignmentExpression(
                             MemberExpression(Identifier("module"), Identifier("exports")),
                             Literal("{ a: 1 }")))>>)
       [] p = "/proj/named.cjs" ->
            Code("js", <<ExpressionStatement(
                           AssignmentExpression(
                             MemberExpression(Identifier("exports"), Identifier("count")),
                             Literal("1"))),
                         ExpressionStatement(
                           AssignmentExpression(
                             MemberExpression(Identifier("exports"), Identifier("make")),
                             FunctionExpression("make", "return 1")))>>)]

CommonJsProject ==
  Project(CommonJsFiles, NoTsConfig, DOMAIN CommonJsFiles, {})

\* export * from './impl'; export const own = 1;  and  export const impl = 2;
ReExportFiles ==
  [p \in {"/proj/index.ts", "/proj/impl.ts"} |->
     CASE p = "/proj/index.ts" ->
            Code("ts", <<ExportAllDeclaration("./impl"),
                         ExportDeclaration(Const("own", Literal("1")))>>)
       [] p = "/proj/impl.ts" ->
            Code("ts", <<ExportDeclaration(Const("impl", Literal("2")))>>)]

ReExportProject ==
  Project(ReExportFiles, NoTsConfig, DOMAIN ReExportFiles, {})

\* dynamic imports: in a declaration a file exports, in a plain declaration
\* and in a statement of its own
DynamicImportFiles ==
  [p \in {"/proj/lazy.ts", "/proj/host.ts"} |->
     CASE p = "/proj/lazy.ts" ->
            Code("ts", <<ExportDeclaration(
                           Const("load", ArrowFunctionExpression(DynamicImport("pkg"))))>>)
       [] p = "/proj/host.ts" ->
            Code("ts", <<ImportDeclaration("./lazy", <<ImportSpecifier(NoName, "load")>>),
                         Const("warm", DynamicImport("warm")),
                         ExpressionStatement(DynamicImport("side")),
                         FunctionDeclaration("host", Uses(<<"load", "warm">>))>>)]

DynamicImportProject ==
  Project(DynamicImportFiles, NoTsConfig, DOMAIN DynamicImportFiles, {})

\* two alias patterns that both match '@/utils/fmt', the shorter one declared
\* first: "paths": { "@/*": ["src/*"], "@/utils/*": ["missing/*", "shared/*"] }
AliasFiles ==
  [p \in {"/proj/app.ts", "/proj/src/utils/fmt.ts", "/proj/shared/fmt.ts"} |->
     CASE p = "/proj/app.ts" ->
            Code("ts", <<ImportDeclaration("@/utils/fmt", <<ImportSpecifier(NoName, "fmt")>>),
                         ImportDeclaration("@/none", <<ImportSpecifier(NoName, "none")>>),
                         ExportDeclaration(FunctionDeclaration("app", Uses(<<"fmt", "none">>)))>>)
       [] p = "/proj/src/utils/fmt.ts" ->
            Code("ts", <<ExportDeclaration(Const("fmt", Literal("'src'")))>>)
       [] p = "/proj/shared/fmt.ts" ->
            Code("ts", <<ExportDeclaration(Const("fmt", Literal("'shared'")))>>)]

AliasProject ==
  Project(AliasFiles,
          [baseUrl |-> ".",
           paths |-> <<[alias |-> "@/*", targets |-> <<"src/*">>],
                       [alias |-> "@/utils/*", targets |-> <<"missing/*", "shared/*">>]>>],
          DOMAIN AliasFiles, {})

\* specifiers without and with an extension: ./dup is dup.js and dup.ts on disk
ProbeFiles ==
  [p \in {"/proj/probe.ts", "/proj/dup.js", "/proj/dup.ts"} |->
     CASE p = "/proj/probe.ts" ->
            Code("ts", <<ImportDeclaration("./dup", <<ImportSpecifier(NoName, "dup")>>),
                         ImportDeclaration("./nowhere", <<ImportSpecifier(NoName, "gone")>>),
                         ImportDeclaration("./dup.ts", <<ImportSpecifier(NoName, "ext")>>),
                         ExportDeclaration(
                           FunctionDeclaration("probe", Uses(<<"dup", "gone", "ext">>)))>>)
       [] p = "/proj/dup.js" ->
            Code("js", <<ExportDeclaration(Const("dup", Literal("'js'")))>>)
       [] p = "/proj/dup.ts" ->
            Code("ts", <<ExportDeclaration(Const("ext", Literal("'ts'")))>>)]

ProbeProject ==
  Project(ProbeFiles, NoTsConfig, DOMAIN ProbeFiles, {})

\* files loaded with require(): one that runs, one that throws when it runs
\* (`export const bad = missing;`), one of an installed package
HookFiles ==
  [p \in {"/proj/ok.ts", "/proj/bad.ts", "/proj/node_modules/dep/index.ts"} |->
     CASE p = "/proj/ok.ts" ->
            Code("ts", <<ExportDeclaration(Const("ok", Literal("1")))>>)
       [] p = "/proj/bad.ts" ->
            Code("ts", <<ExportDeclaration(Const("bad", Identifier("missing")))>>)
       [] p = "/proj/node_modules/dep/index.ts" ->
            Code("ts", <<ExportDeclaration(Const("dep", Literal("1")))>>)]

HookProject ==
  Project(HookFiles, NoTsConfig, DOMAIN HookFiles, {})

\* variable declarations of several declarators:
\* `const x = require('p'), y = 5; export const sum = y;` and
\* `const a = 1, b = require('q'); export const first = a;`
DeclaratorFiles ==
  [p \in {"/proj/multi.ts", "/proj/plain.ts"} |->
     CASE p = "/proj/multi.ts" ->
            Code("ts", <<VariableDeclaration(<<VariableDeclarator("x", RequireCall("p")),
                                               VariableDeclarator("y", Literal("5"))>>),
                         ExportDeclaration(Const("sum", Identifier("y")))>>)
       [] p = "/proj/plain.ts" ->
            Code("ts", <<VariableDeclaration(<<VariableDeclarator("a", Literal("1")),
                                               VariableDeclarator("b", RequireCall("q"))>>),
                         ExportDeclaration(Const("first", Identifier("a")))>>)]

DeclaratorProject ==
  Project(DeclaratorFiles, NoTsConfig, DOMAIN DeclaratorFiles, {})

Projects ==
  GraphProjects
    \cup {SnippetProject, ExternalProject, RenameProject, MiscProject, UnresolvedProject,
          CycleProject, DefaultDeclarationProject, CommonJsProject, ReExportProject,
          DynamicImportProject, AliasProject, ProbeProject, HookProject,
          DeclaratorProject}

(***************************************************************************)
(* The states of run(files) and of one execute of the file-based variant.  *)
(***************************************************************************)
\* run's call: the files given, the index of the file whose execute is awaited
RunState(status, files, k, error) ==
  [status |-> status, files |-> files, k |-> k, error |-> error]

NoRun == RunState("idle", <<>>, 0, "")

\* registered: the temporary files the invocation pushed on allTempFiles;
\* attempted: those of them a cleanup has since tried to delete;
\* imported: how `await import(fileUrl)` settled ("" before that);
\* warnings: the deletions that failed in the invocation's cleanup (logged)
FileInvocation(status, filePath) ==
  [status |-> status, filePath |-> filePath, registered |-> <<>>, attempted |-> {},
   imported |-> "", error |-> "", warnings |-> 0]

IdleFileInvocation == FileInvocation("idle", "")

\* the require hook: whether register() was called, whether Module._extensions
\* had a handler for the extension before that, and the calls of the handler
\* register installed, in order
NoHook == [registered |-> FALSE, originalHandler |-> FALSE, loads |-> <<>>]

\* one call of the installed handler: handler is the function that loaded the
\* file ("js": requireExt['.js'], "execute"), exports what module.exports was
\* set to, logged / fallback / rethrown what the catch block did
Load(filename, handler, slot) ==
  [filename |-> filename, handler |-> handler, slot |-> slot,
   exports |-> [kind |-> "unset", slot |-> 0],
   logged |-> FALSE, fallback |-> FALSE, rethrown |-> FALSE]

(***************************************************************************)
(* The process: consecutive calls of execute / executeCode, each awaited   *)
(* before the next, over caches that live as long as the process.          *)
(***************************************************************************)
Slots == 1 .. MaxCalls

Init ==
  /\ project \in Projects
  /\ transformCache = EmptyMap
  /\ fileCache = EmptyMap
  /\ inv = [i \in Slots |-> IdleInvocation]
  /\ calls = 0
  /\ runCall = NoRun
  /\ allTempFiles = <<>>
  /\ tempDisk = {}
  /\ fileInv = [i \in Slots |-> IdleFileInvocation]
  /\ hook = NoHook

\* the state a step of invocation i starts from
Cur(i) == State(inv[i], transformCache, fileCache)

\* the state a step of invocation i leaves
Apply(i, r) ==
  /\ inv' = [inv EXCEPT ![i] = r.iv]
  /\ transformCache' = r.tc
  /\ fileCache' = r.fc
  /\ UNCHANGED <<project, calls, runCall, fileVars, hook>>

Settled(iv) == iv.status \in {"done", "failed"}

NoneRunning == \A i \in Slots : inv[i].status # "running"

Execute(filePath) ==
  /\ calls < MaxCalls
  /\ NoneRunning
  /\ calls' = calls + 1
  /\ LET r == execute(transformCache, fileCache, filePath, project.files)
     IN  /\ inv' = [inv EXCEPT ![calls + 1] = r.iv]
         /\ transformCache' = r.tc
         /\ fileCache' = r.fc
  /\ UNCHANGED <<project, runCall, fileVars, hook>>

ExecuteCode(snippet) ==
  /\ calls < MaxCalls
  /\ NoneRunning
  /\ calls' = calls + 1
  /\ LET r == executeCode(transformCache, fileCache, snippet.code, snippet.filePath)
     IN  /\ inv' = [inv EXCEPT ![calls + 1] = r.iv]
         /\ transformCache' = r.tc
         /\ fileCache' = r.fc
  /\ UNCHANGED <<project, runCall, fileVars, hook>>

Parse(i) ==
  /\ inv[i].status = "running"
  /\ inv[i].stack # <<>>
  /\ Top(inv[i]).phase = "parse"
  /\ Apply(i, parsed(Cur(i)))

VisitImport(i) ==
  /\ Visiting(inv[i])
  /\ CurrentNode(inv[i]).type = "ImportDeclaration"
  /\ Apply(i, processImportDeclaration(Cur(i), project))

VisitVariableDeclaration(i) ==
  /\ Visiting(inv[i])
  /\ CurrentNode(inv[i]).type = "VariableDeclaration"
  /\ Apply(i, processVariableDeclaration(Cur(i), project))

VisitExportAll(i) ==
  /\ Visiting(inv[i])
  /\ CurrentNode(inv[i]).type = "ExportAllDeclaration"
  /\ Apply(i, processExportAllDeclaration(Cur(i), project))

VisitOther(i) ==
  /\ Visiting(inv[i])
  /\ CurrentNode(inv[i]).type \notin
       {"ImportDeclaration", "VariableDeclaration", "ExportAllDeclaration"}
  /\ Apply(i, rewriteNode(Cur(i)))

Resume(i) ==
  /\ inv[i].status = "running"
  /\ inv[i].stack # <<>>
  /\ Top(inv[i]).phase = "resume"
  /\ Apply(i, resumed(Cur(i)))

Flush(i) ==
  /\ inv[i].status = "running"
  /\ inv[i].stack # <<>>
  /\ Top(inv[i]).phase = "visit"
  /\ Top(inv[i]).pc > Len(Top(inv[i]).ast)
  /\ Apply(i, flushed(Cur(i)))

PrintPush(i) ==
  /\ inv[i].status = "running"
  /\ inv[i].stack # <<>>
  /\ Top(inv[i]).phase = "print"
  /\ Apply(i, pushed(Cur(i)))

Assemble(i) ==
  /\ inv[i].status = "running"
  /\ inv[i].stack = <<>>
  /\ Apply(i, assembled(Cur(i)))

\* the continuations the event loop runs
Step ==
  \E i \in Slots :
    \/ Parse(i)
    \/ VisitImport(i)
    \/ VisitVariableDeclaration(i)
    \/ VisitExportAll(i)
    \/ VisitOther(i)
    \/ Resume(i)
    \/ Flush(i)
    \/ PrintPush(i)
    \/ Assemble(i)

Next ==
  \/ \E filePath \in project.entries : Execute(filePath)
  \/ \E snippet \in project.snippets : ExecuteCode(snippet)
  \/ Step

Spec == Init /\ [][Next]_vars

\* The event loop runs every continuation that is ready: weak fairness of Step.
\* A step is enabled exactly when an invocation is running, so WF_vars(Step)
\* is written with that in the place of ENABLED <<Step>>_vars.
FairSpec == Spec /\ ([]<>NoneRunning \/ []<><<Step>>_vars)

(***************************************************************************)
(* The command line: run(files, { mode: 'parallel' }) starts one execute   *)
(* per file before any of them goes on, then their continuations           *)
(* interleave.  A rejected execute makes the command exit.                 *)
(***************************************************************************)
\* files.map(file => execute(path.resolve(process.cwd(), file)))
RECURSIVE StartAll(_, _, _)
StartAll(files, k, r) ==
  IF k > Len(files) THEN r
  ELSE LET e == execute(r.tc, r.fc, resolve(Cwd, files[k]), project.files)
       IN  StartAll(files, k + 1,
                    [inv |-> [r.inv EXCEPT ![k] = e.iv], tc |-> e.tc, fc |-> e.fc])

RunParallel(files) ==
  /\ calls = 0
  /\ calls' = Len(files)
  /\ LET r == StartAll(files, 1,
                       [inv |-> inv, tc |-> transformCache, fc |-> fileCache])
     IN  /\ inv' = r.inv
         /\ transformCache' = r.tc
         /\ fileCache' = r.fc
  /\ UNCHANGED <<project, runCall, fileVars, hook>>

\* run(...).catch(err => { ...; process.exit(1) })
ExitOnError ==
  /\ \E i \in Slots : inv[i].status = "failed"
  /\ \E i \in Slots : inv[i].status = "running"
  /\ inv' = [i \in Slots |->
               IF inv[i].status = "running" THEN [inv[i] EXCEPT !.status = "exited"]
               ELSE inv[i]]
  /\ UNCHANGED <<project, transformCache, fileCache, calls, runCall, fileVars, hook>>

NextRun ==
  \/ \E files \in [Slots -> project.entries] : RunParallel(files)
  \/ Step
  \/ ExitOnError

\* the graphs over the cycle a -> b -> c -> a and the chord a -> c
RunEdges == {<<"a", "b">>, <<"b", "c">>, <<"c", "a">>, <<"a", "c">>}

RunProjects ==
  {GraphProject(E) : E \in SUBSET RunEdges}
    \cup {ExternalProject, RenameProject, MiscProject}

InitRun == Init /\ project \in RunProjects

SpecRun == InitRun /\ [][NextRun]_vars

(***************************************************************************)
(* The command line: run(files) in the default sequential mode awaits the  *)
(* execute of one file before it calls the execute of the next.            *)
(***************************************************************************)
\* the outcome of a step of run: its state, the invocations, the caches
RunOutcome(rn, ivs, tc, fc) == [run |-> rn, inv |-> ivs, tc |-> tc, fc |-> fc]

\* as runSequential, going on with the next file after a rejected execute
runSequentialIgnoresRejection(rn, ivs, tc, fc, disk) ==
  IF rn.k = Len(rn.files)
    THEN RunOutcome([rn EXCEPT !.status = "resolved"], ivs, tc, fc)
  ELSE LET e == execute(tc, fc, resolve(Cwd, rn.files[rn.k + 1]), disk)
       IN  RunOutcome([rn EXCEPT !.k = @ + 1], [ivs EXCEPT ![rn.k + 1] = e.iv],
                      e.tc, e.fc)

\* the for-loop of run from the point where `await execute(files[rn.k])` has
\* settled (rn.k = 0: from the start of the loop) to the next await
runSequential(rn, ivs, tc, fc, disk) ==
  IF rn.k > 0 /\ ivs[rn.k].status = "failed"
    THEN RunOutcome([rn EXCEPT !.status = "rejected", !.error = ivs[rn.k].error],
                    ivs, tc, fc)
  ELSE IF rn.k = Len(rn.files)
    THEN RunOutcome([rn EXCEPT !.status = "resolved"], ivs, tc, fc)
  ELSE LET e == execute(tc, fc, resolve(Cwd, rn.files[rn.k + 1]), disk)
       IN  RunOutcome([rn EXCEPT !.k = @ + 1], [ivs EXCEPT ![rn.k + 1] = e.iv],
                      e.tc, e.fc)

\* run(files) up to its first await
run(files, ivs, tc, fc, disk) ==
  IF Len(files) = 0
    THEN RunOutcome(RunState("rejected", files, 0, "No files specified."), ivs, tc, fc)
    ELSE runSequential(RunState("running", files, 0, ""), ivs, tc, fc, disk)

ApplyRun(r) ==
  /\ runCall' = r.run
  /\ inv' = r.inv
  /\ transformCache' = r.tc
  /\ fileCache' = r.fc
  /\ calls' = r.run.k
  /\ UNCHANGED <<project, fileVars, hook>>

RunSequential(files) ==
  /\ runCall.status = "idle"
  /\ ApplyRun(run(files, inv, transformCache, fileCache, project.files))

\* the awaited execute has settled: the loop goes on, or run settles
AwaitExecute ==
  /\ runCall.status = "running"
  /\ Settled(inv[runCall.k])
  /\ ApplyRun(runSequential(runCall, inv, transformCache, fileCache, project.files))

StepSeq == Step \/ AwaitExecute

NextSeq ==
  \/ \E n \in 0 .. MaxCalls : \E files \in [1 .. n -> project.entries] :
       RunSequential(files)
  \/ Step
  \/ AwaitExecute

SpecSeq == InitRun /\ [][NextSeq]_vars

\* The event loop runs every continuation that is ready.  While run is pending
\* either the awaited invocation has a continuation or run's own is ready, so
\* weak fairness of StepSeq is written with that in the place of ENABLED.
FairSeq == SpecSeq /\ ([]<>(runCall.status # "running") \/ []<><<StepSeq>>_vars)

(***************************************************************************)
(* The file-based variant of execute: every internal import and the entry  *)
(* are written as temporary .mjs files next to the importing file, listed  *)
(* in the process-wide allTempFiles, and the entry's file is imported.     *)
(* tempDisk is the set of temporary files on disk.                         *)
(***************************************************************************)
possibleExtensions == <<".js", ".ts", ".mjs", ".mts", ".jsx", ".tsx">>

\* path.join(dir, name)
join(dir, name) == IF dir = "/" THEN "/" \o name ELSE dir \o "/" \o name

\* path.basename(p, ext)
basenameWithout(p, ext) ==
  IF ext # "" /\ EndsWith(basename(p), ext) /\ basename(p) # ext
    THEN SubSeq(basename(p), 1, Len(basename(p)) - Len(ext))
    ELSE basename(p)

\* join(dirname(basePath), basename(resolvedPath, ext) + '-' + ext.slice(1) + '-tmp.mjs')
tempFilePathOf(resolvedPath, ext, basePath) ==
  join(dirname(basePath), basenameWithout(resolvedPath, ext) \o "-" \o Slice(ext, 1) \o "-tmp.mjs")

\* transformer of the file-based variant: only .ts, .mts and .tsx are transpiled
transformerOfFiles(source, ext) ==
  IF ext \in {".ts", ".mts", ".tsx"} THEN transformSync(source, ext) ELSE source

\* resolveImportPath of the file-based variant: [path, error]
resolveImportPathOfFiles(importPath, tsConfig, files) ==
  IF EndsWith(importPath, ".cjs") \/ EndsWith(importPath, ".cts")
    THEN [path |-> "", error |-> "rscute cannot import CommonJS files (.cjs/.cts)."]
  ELSE IF tsConfig.baseUrl = "" THEN [path |-> importPath, error |-> ""]
  ELSE LET cands == AliasCandidates(importPath, tsConfig)
           hits == {k \in DOMAIN cands :
                      \/ existsSync(cands[k], files)
                      \/ existsSync(cands[k] \o ".ts", files)
                      \/ existsSync(cands[k] \o ".js", files)}
       IN  [path |-> IF hits # {} THEN cands[MinOf(hits)]
                     ELSE resolve(resolve(getProjectRoot, tsConfig.baseUrl), importPath),
            error |-> ""]

\* the package is found under <project root>/node_modules
InNodeModules(importPath, files) ==
  LET nodeModulesPath == resolve(resolve(getProjectRoot, "node_modules"), importPath)
  IN  \/ existsSync(join(nodeModulesPath, "index.js"), files)
      \/ existsSync(join(nodeModulesPath, "index.mjs"), files)
      \/ existsSync(nodeModulesPath \o ".js", files)
      \/ existsSync(nodeModulesPath \o ".mjs", files)

\* resolvedPath with the first extension of possibleExtensions that exists
ProbePossibleExtensions(resolvedPath, files) ==
  LET hits == {k \in DOMAIN possibleExtensions :
                 existsSync(resolvedPath \o possibleExtensions[k], files)}
  IN  IF extname(resolvedPath) # "" \/ hits = {} THEN resolvedPath
      ELSE resolvedPath \o possibleExtensions[MinOf(hits)]

\* what a call of processImports leaves: the temporary files it pushed on
\* allTempFiles, in order, and the error it threw ("" when it returned)
Pushed(files, error) == [pushed |-> files, error |-> error]

\* the replace callback of processImports up to the recursive call: the
\* file the import statement resolves to (rp: what the resolver returned),
\* and whether the callback descends into it
Resolved(importPath, rp, files) ==
  LET resolvedPath == ProbePossibleExtensions(rp.path, files)
      ext == extname(resolvedPath)
  IN  [resolvedPath |-> resolvedPath, ext |-> ext, error |-> rp.error,
       descend |-> /\ rp.error = ""
                   /\ ~InNodeModules(importPath, files)
                   /\ ext \in Range(possibleExtensions)
                   /\ existsSync(resolvedPath, files)]

ResolvedImport(importPath, basePath, proj) ==
  Resolved(importPath,
           IF StartsWith(importPath, ".")
             THEN [path |-> resolve(dirname(basePath), importPath), error |-> ""]
             ELSE resolveImportPathOfFiles(importPath, loadTsConfig(proj), proj.files),
           proj.files)

\* the import statements of a text, in order
ImportStatements(code) ==
  SelectSeq(code.body, LAMBDA n : n.type = "ImportDeclaration")

\* what two calls in a row leave
PushedThen(acc, r) == Pushed(acc.pushed \o r.pushed, r.error)

RECURSIVE processImport(_, _, _, _)
RECURSIVE ProcessImportsFrom(_, _, _, _, _, _)

\* the replace callback of processImports for one import statement, which
\* resolved to target.  The callback has no visited set: an import of a
\* file that is being processed (ancestors) recurses until the call stack
\* overflows.
processImport(target, basePath, ancestors, proj) ==
  IF target.error # "" THEN Pushed(<<>>, target.error)
  ELSE IF ~target.descend THEN Pushed(<<>>, "")
  ELSE IF target.resolvedPath \in ancestors THEN Pushed(<<>>, "RangeError")
  ELSE LET depCode == transformerOfFiles(readFileSync(target.resolvedPath, proj.files),
                                         target.ext)
           inner == ProcessImportsFrom(ImportStatements(depCode), 1, target.resolvedPath,
                                       ancestors \cup {target.resolvedPath}, proj,
                                       Pushed(<<>>, ""))
       IN  IF inner.error # "" THEN inner
           ELSE Pushed(Append(inner.pushed,
                              tempFilePathOf(target.resolvedPath, target.ext, basePath)),
                       "")

ProcessImportsFrom(imports, k, basePath, ancestors, proj, acc) ==
  IF k > Len(imports) \/ acc.error # "" THEN acc
  ELSE ProcessImportsFrom(
         imports, k + 1, basePath, ancestors, proj,
         PushedThen(acc,
                    processImport(ResolvedImport(imports[k].source.value, basePath, proj),
                                  basePath, ancestors, proj)))

\* processImports: the import statements of the text, in order
processImports(code, basePath, ancestors, proj) ==
  ProcessImportsFrom(ImportStatements(code), 1, basePath, ancestors, proj,
                     Pushed(<<>>, ""))

\* the outcome of a step of the file-based variant
FileOutcome(fiv, list, disk) == [iv |-> fiv, list |-> list, disk |-> disk]

\* execute of the file-based variant up to `await import(fileUrl)`
executeOfFiles(filePath, list, disk, proj) ==
  LET absoluteFilePath == resolve(Cwd, filePath)
      ext == IF extname(filePath) \in Range(extensions) THEN extname(filePath) ELSE ""
      fiv == FileInvocation("rejected", filePath)
      code == transformerOfFiles(readFileSync(absoluteFilePath, proj.files), ext)
      done == processImports(code, absoluteFilePath, {absoluteFilePath}, proj)
      tempFilePath == join(dirname(absoluteFilePath),
                           basenameWithout(filePath, ext) \o "-" \o Slice(ext, 1)
                             \o "-tmp.mjs")
  IN  IF ~StartsWith(absoluteFilePath, getProjectRoot \o "/")
        THEN FileOutcome([fiv EXCEPT !.error = "Invalid path"], list, disk)
      ELSE IF ext = ""
        THEN FileOutcome([fiv EXCEPT !.error = "Unsupported file extension"], list, disk)
      ELSE IF ext \in {".cjs", ".cts"}
        THEN FileOutcome([fiv EXCEPT !.error = "rscute supports only ESM"], list, disk)
      ELSE IF ~existsSync(absoluteFilePath, proj.files)
        THEN FileOutcome([fiv EXCEPT !.error = "ENOENT"], list, disk)
      ELSE IF done.error # ""
        THEN FileOutcome([fiv EXCEPT !.error = done.error, !.registered = done.pushed],
                         list \o done.pushed, disk \cup Range(done.pushed))
      ELSE FileOutcome([fiv EXCEPT !.status = "importing",
                                   !.registered = Append(done.pushed, tempFilePath)],
                       list \o Append(done.pushed, tempFilePath),
                       disk \cup Range(done.pushed) \cup {tempFilePath})

\* what cleanupTempFiles leaves; failing: the files whose unlinkSync throws
Cleaned(list, disk, warnings, thrown) ==
  [list |-> list, disk |-> disk, warnings |-> warnings, thrown |-> thrown]

\* as cleanupTempFiles, without the try/catch around unlinkSync
cleanupTempFilesNoCatch(list, disk, failing) ==
  LET bad == {k \in DOMAIN list : list[k] \in disk /\ list[k] \in failing}
  IN  IF bad = {} THEN Cleaned(<<>>, disk \ Range(list), 0, FALSE)
      ELSE Cleaned(list, disk \ {list[k] : k \in 1 .. MinOf(bad) - 1}, 0, TRUE)

cleanupTempFiles(list, disk, failing) ==
  Cleaned(<<>>, disk \ (Range(list) \ failing),
          Cardinality(Range(list) \cap disk \cap failing), FALSE)

InitFile == Init /\ project \in RunProjects

\* execute(filePath) is called
FileExecute(filePath) ==
  /\ calls < MaxCalls
  /\ calls' = calls + 1
  /\ LET r == executeOfFiles(filePath, allTempFiles, tempDisk, project)
     IN  /\ fileInv' = [fileInv EXCEPT ![calls + 1] = r.iv]
         /\ allTempFiles' = r.list
         /\ tempDisk' = r.disk
  /\ UNCHANGED <<project, transformCache, fileCache, inv, runCall, hook>>

\* `await import(fileUrl)` settles with `outcome`, then the finally block runs
ImportSettled(i, outcome, failing) ==
  /\ fileInv[i].status = "importing"
  /\ LET r == cleanupTempFiles(allTempFiles, tempDisk, failing)
     IN  /\ fileInv' =
              [j \in Slots |->
                 LET seen == [fileInv[j] EXCEPT
                                !.attempted = @ \cup (Range(fileInv[j].registered)
                                                        \cap Range(allTempFiles))]
                 IN  IF j # i THEN seen
                     ELSE [seen EXCEPT
                             !.imported = outcome,
                             !.warnings = r.warnings,
                             !.status = IF r.thrown THEN "rejected" ELSE outcome,
                             !.error = IF r.thrown THEN "unlink"
                                       ELSE IF outcome = "rejected" THEN "import"
                                       ELSE ""]]
         /\ allTempFiles' = r.list
         /\ tempDisk' = r.disk
  /\ UNCHANGED <<project, transformCache, fileCache, inv, calls, runCall, hook>>

NextFile ==
  \/ \E filePath \in project.entries : FileExecute(filePath)
  \/ \E i \in Slots : \E outcome \in {"resolved", "rejected"} :
       \E failing \in SUBSET (Range(allTempFiles) \cap tempDisk) :
         ImportSettled(i, outcome, failing)

SpecFile == InitFile /\ [][NextFile]_vars

(***************************************************************************)
(* A long-lived process (a watcher, a test runner): between two calls of   *)
(* execute / executeCode a file of the project is saved with new content.  *)
(***************************************************************************)
\* the statement the new content has at its end: const edited = 1;
EditMark == Const("edited", Literal("1"))

IsEdited(code) == EditMark \in Range(code.body)

\* the file at path p is written with new content while no invocation runs
EditFile(p) ==
  /\ calls > 0
  /\ calls < MaxCalls
  /\ NoneRunning
  /\ \A q \in DOMAIN project.files : ~IsEdited(project.files[q])
  /\ project' = [project EXCEPT
                   !.files[p] = Code(@.lang, Append(@.body, EditMark))]
  /\ UNCHANGED <<transformCache, fileCache, inv, calls, runCall, fileVars, hook>>

NextEdit ==
  \/ Next
  \/ \E p \in DOMAIN project.files : EditFile(p)

SpecEdit == Init /\ [][NextEdit]_vars

(***************************************************************************)
(* The require hook (register.js): register() wraps the handlers of        *)
(* Module._extensions for .ts, .tsx and .cts; a handler is called by       *)
(* require(filename) and returns before the invocation it started goes on. *)
(***************************************************************************)
targetExtensions == <<".ts", ".tsx", ".cts">>

\* s.includes(sub)
Includes(s, sub) ==
  \E k \in 1 .. (Len(s) - Len(sub) + 1) : SubSeq(s, k, k + Len(sub) - 1) = sub

\* requireExt[ext] as register installs it.  threw: the call execute(filename)
\* threw; slot: the invocation the call started
requireExtHandler(filename, slot, originalHandler, threw) ==
  IF Includes(filename, "node_modules") THEN Load(filename, "js", slot)
  ELSE IF ~threw
    THEN [Load(filename, "execute", slot) EXCEPT
            !.exports = [kind |-> "promise", slot |-> slot]]
  ELSE [Load(filename, IF originalHandler THEN "original" ELSE "execute", slot) EXCEPT
          !.logged = TRUE, !.fallback = originalHandler, !.rethrown = ~originalHandler]

\* the projects whose files are loaded through the hook
HookProjects == {HookProject, ReExportProject, ExternalProject, DeclaratorProject}

InitHook == Init /\ project \in HookProjects

\* register(); originalHandler: Module._extensions had a handler already
Register(originalHandler) ==
  /\ ~hook.registered
  /\ hook' = [hook EXCEPT !.registered = TRUE, !.originalHandler = originalHandler]
  /\ UNCHANGED <<project, transformCache, fileCache, inv, calls, runCall, fileVars>>

\* require(filename) of a file the hook handles.  execute is an async
\* function: its call returns a promise whatever happens in its body, so
\* the call never throws.
Require(filename) ==
  /\ hook.registered
  /\ calls < MaxCalls
  /\ calls' = calls + 1
  /\ LET load == requireExtHandler(filename, calls + 1, hook.originalHandler, FALSE)
         r == execute(transformCache, fileCache, filename, project.files)
     IN  /\ hook' = [hook EXCEPT !.loads = Append(@, load)]
         /\ IF load.handler = "execute"
              THEN /\ inv' = [inv EXCEPT ![calls + 1] = r.iv]
                   /\ transformCache' = r.tc
                   /\ fileCache' = r.fc
              ELSE UNCHANGED <<inv, transformCache, fileCache>>
  /\ UNCHANGED <<project, runCall, fileVars>>

NextHook ==
  \/ \E originalHandler \in BOOLEAN : Register(originalHandler)
  \/ \E filename \in {p \in DOMAIN project.files : extname(p) \in Range(targetExtensions)} :
       Require(filename)
  \/ Step

SpecHook == InitHook /\ [][NextHook]_vars

(***************************************************************************)
(* One invocation run on its own in a process that has run nothing else.   *)
(***************************************************************************)
\* visit: the dispatch on the kind of the current node
visit(s, proj) ==
  LET type == CurrentNode(s.iv).type
  IN  CASE type = "ImportDeclaration" -> processImportDeclaration(s, proj)
        [] type = "VariableDeclaration" -> processVariableDeclaration(s, proj)
        [] type = "ExportAllDeclaration" -> processExportAllDeclaration(s, proj)
        [] OTHER -> rewriteNode(s)

\* the one continuation a running invocation has
StepOf(s, proj) ==
  IF s.iv.stack = <<>> THEN assembled(s)
  ELSE CASE Top(s.iv).phase = "parse" -> parsed(s)
         [] Top(s.iv).phase = "resume" -> resumed(s)
         [] Top(s.iv).phase = "print" -> pushed(s)
         [] OTHER -> IF Top(s.iv).pc > Len(Top(s.iv).ast) THEN flushed(s)
                     ELSE visit(s, proj)

RECURSIVE RunAlone(_, _)
RunAlone(s, proj) ==
  IF s.iv.status # "running" THEN s ELSE RunAlone(StepOf(s, proj), proj)

\* the settled invocation of the same call made first in a fresh process
FreshRun(iv, proj) ==
  RunAlone(IF iv.api = "execute"
             THEN execute(EmptyMap, EmptyMap, iv.filePath, proj.files)
             ELSE executeCode(EmptyMap, EmptyMap, iv.code, iv.filePath),
           proj).iv

(***************************************************************************)
(* The internal import graph of an invocation: the units are the texts the *)
(* inliner is given (the transpiled text of a file, the entry's text), an  *)
(* edge is a specifier of a unit that resolves to a file on disk.          *)
(***************************************************************************)
\* the text fullCodeGen gets for the file at path p
UnitText(iv, p) ==
  IF p = iv.filePath /\ extname(p) \in jsExtensions THEN iv.code
  ELSE IF extname(p) \in jsExtensions
    THEN (IF p \in DOMAIN fileCache THEN fileCache[p] ELSE NoCode)
  ELSE IF p \in DOMAIN transformCache THEN transformCache[p]
  ELSE NoCode

\* the specifier a statement asks the resolver about, NoName when none
SpecifierOf(stmt) ==
  CASE stmt.type = "ImportDeclaration" ->
         IF extname(stmt.source.value) \in excludedExtensions THEN NoName
         ELSE stmt.source.value
    [] stmt.type = "ExportAllDeclaration" -> stmt.source.value
    [] stmt.type = "VariableDeclaration" ->
         IF /\ Len(stmt.declarations) > 0
            /\ stmt.declarations[1].init.type = "CallExpression"
            /\ ValueOf(stmt.declarations[1].init.callee) = "require"
           THEN stmt.declarations[1].init.arguments[1].expression.value
           ELSE NoName
    [] OTHER -> NoName

\* the files the unit at path p imports
InternalImports(iv, p) ==
  LET body == UnitText(iv, p).body
      Target(k) == ResolveSpecifier(SpecifierOf(body[k]), p, loadTsConfig(project),
                                    project.files)
  IN  {Target(k) : k \in {j \in DOMAIN body :
                            /\ SpecifierOf(body[j]) # NoName
                            /\ existsSync(Target(j), project.files)}}

RECURSIVE ReachFrom(_, _, _)
ReachFrom(iv, frontier, seen) ==
  IF frontier = {} THEN seen
  ELSE ReachFrom(iv,
                 UNION {InternalImports(iv, p) : p \in frontier} \ (seen \cup frontier),
                 seen \cup frontier)

\* the entry and every internal file reachable from it
Reachable(iv) == ReachFrom(iv, {iv.filePath}, {})

\* how often the fragment of the file at path p is in bundleStack
FragmentCount(iv, p) ==
  Cardinality({k \in DOMAIN iv.bundleStack :
                 iv.bundleStack[k].fragment /\ iv.bundleStack[k].file = p})

\* fullCodeGen of the entry has returned
Inlined(iv) == iv.stack = <<>> /\ iv.bundleStack # <<>>

\* C1: whatever the internal import graph, cycles included, an invocation that
\* is running settles in the end, and once its inlining is over the fragment of
\* every file reachable from its entry is in its bundleStack exactly once.
C1_EachReachableFileOnce ==
  /\ [](\A i \in Slots :
          Inlined(inv[i]) =>
            \A p \in Reachable(inv[i]) : FragmentCount(inv[i], p) = 1)
  /\ \A i \in Slots : (inv[i].status = "running") ~> Settled(inv[i])

\* an invocation has settled whose entry lies on an import cycle and reaches
\* three files, one of them by two import paths
C1_Witness ==
  \E i \in Slots :
    /\ Settled(inv[i])
    /\ Inlined(inv[i])
    /\ Cardinality(Reachable(inv[i])) = 3
    /\ \E p \in Reachable(inv[i]) : inv[i].filePath \in InternalImports(inv[i], p)
    /\ \E p \in Reachable(inv[i]) :
         Cardinality({q \in Reachable(inv[i]) : p \in InternalImports(inv[i], q)}) = 2
    /\ \A p \in Reachable(inv[i]) : FragmentCount(inv[i], p) = 1

\* the names a declaration declares
DeclaredNames(decl) ==
  CASE decl.type = "VariableDeclaration" ->
         {decl.declarations[k].id.value : k \in DOMAIN decl.declarations}
    [] decl.type \in {"FunctionDeclaration", "ClassDeclaration"} ->
         {decl.identifier.value}
    [] OTHER -> {}

\* the statements of a given kind in a text
StatementsOfType(text, type) ==
  {text.body[k] : k \in {j \in DOMAIN text.body : text.body[j].type = type}}

\* the names the entry's text exports with its declarations
ExportedDeclarationNames(text) ==
  UNION {DeclaredNames(st.declaration) : st \in StatementsOfType(text, "ExportDeclaration")}

\* C2: when the entry has a default export of an expression and named exports of
\* declarations, the namespace the invocation returns holds the value of the
\* expression under `default` and every declared name under its own name.
C2_DefaultAndNamedCoexist ==
  \A i \in Slots :
    LET iv == inv[i]
        entry == UnitText(iv, iv.filePath)
        defaults == StatementsOfType(entry, "ExportDefaultExpression")
    IN  (/\ Settled(iv)
         /\ Inlined(iv)
         /\ defaults # {}
         /\ ExportedDeclarationNames(entry) # {})
        => /\ iv.status = "done"
           /\ "default" \in DOMAIN iv.result.exports
           /\ \E d \in defaults :
                iv.result.exports["default"] = Eval(d.expression, iv.result.env)
           /\ \A n \in ExportedDeclarationNames(entry) :
                /\ n \in DOMAIN iv.result.exports
                /\ iv.result.exports[n] = iv.result.env[n]

\* C3: an executeCode call assembles and returns what the same call returns in
\* a process that has run nothing before it: no earlier invocation shows.
C3_NoStateAcrossInvocations ==
  \A i \in Slots :
    (Settled(inv[i]) /\ inv[i].api = "executeCode")
      => LET fresh == FreshRun(inv[i], project)
         IN  /\ inv[i].finalBundle = fresh.finalBundle
             /\ inv[i].result = fresh.result

\* the statements of the registry that bind local name n from specifier m
BindingStatements(iv, m, n) ==
  {k \in DOMAIN iv.externalImportSet :
     /\ iv.externalImportSet[k].type \in {"ConstRequire", "ConstRequireObject"}
     /\ iv.externalImportSet[k].module = m
     /\ n \in BoundNames(iv.externalImportSet[k])}

\* the external specifiers and the local names of a registry
RegistryModules(iv) ==
  {iv.externalImportSet[k].module :
     k \in {j \in DOMAIN iv.externalImportSet : iv.externalImportSet[j].type # "Shim"}}

RegistryNames(iv) ==
  UNION {BoundNames(iv.externalImportSet[k]) : k \in DOMAIN iv.externalImportSet}

\* C4: the registry of an invocation never holds two statements that bind the
\* same local name from the same external specifier.
C4_OneStatementPerBinding ==
  \A i \in Slots :
    \A m \in RegistryModules(inv[i]) :
      \A n \in RegistryNames(inv[i]) :
        Cardinality(BindingStatements(inv[i], m, n)) <= 1

\* the names x with `export { x as y }` in the unit of the file at path q
RenamedExports(iv, q, y) ==
  UNION {{es.orig.value : es \in {e \in Range(ex.specifiers) :
                                    /\ e.type = "ExportSpecifier"
                                    /\ ~IsNull(e.exported)
                                    /\ e.exported.value = y}} :
           ex \in StatementsOfType(UnitText(iv, q), "ExportNamedDeclaration")}

\* the file an import statement of the unit at path p resolves to
ImportTarget(im, p) ==
  ResolveSpecifier(im.source.value, p, loadTsConfig(project), project.files)

\* C5: when a dependency has `export { x as y }` and the entry imports it with
\* `import { y as z }`, the invocation runs and the entry's z holds the value
\* of the dependency's x.
C5_RenamedExportReachesImport ==
  \A i \in Slots :
    LET iv == inv[i]
    IN  \A im \in StatementsOfType(UnitText(iv, iv.filePath), "ImportDeclaration") :
          \A sp \in Range(im.specifiers) :
            (/\ Settled(iv)
             /\ Inlined(iv)
             /\ extname(im.source.value) \notin excludedExtensions
             /\ existsSync(ImportTarget(im, iv.filePath), project.files)
             /\ sp.type = "ImportSpecifier"
             /\ ~IsNull(sp.imported)
             /\ RenamedExports(iv, ImportTarget(im, iv.filePath), sp.imported.value) # {})
            => /\ iv.status = "done"
               /\ \A x \in RenamedExports(iv, ImportTarget(im, iv.filePath),
                                          sp.imported.value) :
                    /\ sp.local.value \in DOMAIN iv.result.env
                    /\ x \in DOMAIN iv.result.env
                    /\ iv.result.env[sp.local.value] = iv.result.env[x]

\* the path is under the project root
InsideProjectRoot(p) == StartsWith(p, getProjectRoot \o "/")

\* the invocation has touched nothing: no read, no existence test, no parse, no
\* transpiler call, an empty visited set, stack and registry
Untouched(iv) ==
  /\ iv.io = NoIo
  /\ iv.xlog = <<>>
  /\ iv.processedFiles = {}
  /\ iv.stack = <<>>
  /\ iv.bundleStack = <<>>
  /\ iv.externalImportSet = <<>>

\* C7: execute of a path whose extension is not a supported one fails with the
\* unsupported-extension error, and has read, transpiled, parsed and touched
\* nothing.
C7_UnsupportedExtensionFailsFirst ==
  \A i \in Slots :
    (/\ inv[i].api = "execute"
     /\ extname(inv[i].filePath) \notin Range(extensions))
    => /\ inv[i].status = "failed"
       /\ inv[i].error = "Unsupported file extension"
       /\ Untouched(inv[i])

\* C8: execute of a path outside the project root is rejected: the file is not
\* read and nothing is run.
C8_OutsideRootRejected ==
  \A i \in Slots :
    (/\ inv[i].api = "execute"
     /\ ~InsideProjectRoot(inv[i].filePath))
    => /\ inv[i].status = "failed"
       /\ inv[i].io.reads = 0
       /\ inv[i].io.parses = 0
       /\ inv[i].finalBundle = <<>>

\* an import statement whose specifier has an excluded asset extension
IsAssetImport(node) ==
  /\ node.type = "ImportDeclaration"
  /\ extname(node.source.value) \in excludedExtensions

\* the invocation is about to visit an asset import
AtAssetImport(iv) == Visiting(iv) /\ IsAssetImport(CurrentNode(iv))

\* C9: the step that visits an import with an excluded asset extension erases
\* the statement and nothing else: the visited set, the registry (flushed and
\* pending) and the stack stay as they are, no existence test and no read is
\* made, no cache changes.
C9_AssetImportErased ==
  [][\A i \in Slots :
       (AtAssetImport(inv[i]) /\ inv'[i] # inv[i])
       => /\ inv'[i].processedFiles = inv[i].processedFiles
          /\ inv'[i].externalImportSet = inv[i].externalImportSet
          /\ inv'[i].bundleStack = inv[i].bundleStack
          /\ inv'[i].io = inv[i].io
          /\ inv'[i].xlog = inv[i].xlog
          /\ Len(inv'[i].stack) = Len(inv[i].stack)
          /\ Top(inv'[i]).externalImportMap = Top(inv[i]).externalImportMap
          /\ Top(inv'[i]).out = Top(inv[i]).out
          /\ Top(inv'[i]).pc = Top(inv[i]).pc + 1
          /\ fileCache' = fileCache
          /\ transformCache' = transformCache]_vars

\* an invocation has just visited an asset import of a file that is on disk
C9_Witness ==
  \E i \in Slots :
    /\ inv[i].status = "running"
    /\ inv[i].stack # <<>>
    /\ Top(inv[i]).phase = "visit"
    /\ Top(inv[i]).pc > 1
    /\ IsAssetImport(Top(inv[i]).ast[Top(inv[i]).pc - 1])
    /\ existsSync(resolve(dirname(Top(inv[i]).basePath),
                          Top(inv[i]).ast[Top(inv[i]).pc - 1].source.value),
                  project.files)

\* C10: within one invocation a later transformer call for a path already
\* asked for returns the text of the earlier call without calling the
\* transpiler, and an entry of transformCache is never overwritten or removed.
C10_TransformerCacheHit ==
  /\ [](\A i \in Slots :
          \A j, k \in DOMAIN inv[i].xlog :
            (j < k /\ inv[i].xlog[j].path = inv[i].xlog[k].path)
            => /\ inv[i].xlog[k].code = inv[i].xlog[j].code
               /\ ~inv[i].xlog[k].called)
  /\ [][\A p \in DOMAIN transformCache :
          /\ p \in DOMAIN transformCache'
          /\ transformCache'[p] = transformCache[p]]_vars

\* an invocation has asked the transformer twice for the same path
C10_Witness ==
  \E i \in Slots :
    \E j, k \in DOMAIN inv[i].xlog :
      /\ j < k
      /\ inv[i].xlog[j].path = inv[i].xlog[k].path
      /\ inv[i].xlog[j].called
      /\ ~inv[i].xlog[k].called

\* C6: an execute started by run(files, { mode: 'parallel' }) settles, however
\* the continuations of the invocations interleave, with the final program,
\* the namespace and the outcome of the same execute running alone.
C6_InterleavingKeepsIsolation ==
  \A i \in Slots :
    Settled(inv[i])
    => LET alone == FreshRun(inv[i], project)
       IN  /\ inv[i].finalBundle = alone.finalBundle
           /\ inv[i].result = alone.result
           /\ inv[i].status = alone.status
           /\ inv[i].error = alone.error

\* an invocation that was started after another one has assembled its program
\* while the other is still inlining, and it found in transformCache the text
\* of a file that the other has visited
C6_Witness ==
  \E i, j \in Slots :
    /\ i < j
    /\ inv[j].status = "done"
    /\ inv[i].status = "running"
    /\ inv[i].stack # <<>>
    /\ \E k \in DOMAIN inv[j].xlog :
         /\ ~inv[j].xlog[k].called
         /\ inv[j].xlog[k].path \in inv[i].processedFiles
    /\ inv[j].finalBundle = FreshRun(inv[j], project).finalBundle

\* C11: run(files) in sequential mode calls execute for the files in the order
\* given, each only when the execute of the file before it has resolved; when
\* an execute rejects no later file is started and run rejects with its error.
C11_SequentialRunInOrder ==
  /\ [](\A k \in Slots :
          /\ inv[k].status # "idle"
               => /\ k <= Len(runCall.files)
                  /\ inv[k].api = "execute"
                  /\ inv[k].filePath = resolve(Cwd, runCall.files[k])
                  /\ \A j \in 1 .. k - 1 : inv[j].status = "done"
          /\ inv[k].status = "failed"
               => \A j \in Slots : j > k => inv[j].status = "idle")
  /\ [](/\ (runCall.status = "rejected" /\ runCall.files # <<>>)
            => /\ inv[runCall.k].status = "failed"
               /\ runCall.error = inv[runCall.k].error
        /\ runCall.status = "resolved"
            => \A k \in DOMAIN runCall.files : inv[k].status = "done")
  /\ [][\A k \in Slots :
          (inv[k].status = "idle" /\ inv'[k].status # "idle")
          => \A j \in 1 .. k - 1 : inv[j].status = "done"]_vars
  /\ \A k \in Slots :
       (inv[k].status = "failed") ~> (runCall.status = "rejected")
  /\ (runCall.status = "running") ~> (runCall.status \in {"resolved", "rejected"})

\* run was given two different files: the first has resolved, the second was
\* started after that and rejected, and run has rejected with its error
C11_Witness ==
  /\ Len(runCall.files) = 2
  /\ runCall.files[1] # runCall.files[2]
  /\ inv[1].status = "done"
  /\ inv[2].status = "failed"
  /\ inv[2].io.parses > 0
  /\ runCall.status = "rejected"
  /\ runCall.error = inv[2].error

\* the fragment of the file at path y is in bundleStack before that of x
FragmentBefore(iv, y, x) ==
  \E j, k \in DOMAIN iv.bundleStack :
    /\ j < k
    /\ iv.bundleStack[j].fragment /\ iv.bundleStack[j].file = y
    /\ iv.bundleStack[k].fragment /\ iv.bundleStack[k].file = x

\* the file at path y imports, directly or through other files, the file at x
DependsOn(iv, y, x) == x \in UNION {ReachFrom(iv, {q}, {}) : q \in InternalImports(iv, y)}

\* C12: once the inlining of an invocation is over, for every internal import
\* edge x -> y the fragment of the dependency y is in bundleStack before the
\* fragment of its dependent x (x and y two files).
C12_DependencyBeforeDependent ==
  \A i \in Slots :
    Inlined(inv[i])
    => \A x \in Reachable(inv[i]) :
         \A y \in InternalImports(inv[i], x) \ {x} : FragmentBefore(inv[i], y, x)

\* C12 as amended: the same for every internal import edge x -> y whose
\* dependency y does not import x back, directly or through other files.
C12_AcyclicDependencyBeforeDependent ==
  \A i \in Slots :
    Inlined(inv[i])
    => \A x \in Reachable(inv[i]) :
         \A y \in InternalImports(inv[i], x) :
           ~DependsOn(inv[i], y, x) => FragmentBefore(inv[i], y, x)

\* inlining is over for an entry that reaches three files, with an import
\* cycle among them and an edge into a file that imports nothing back
C12_Witness ==
  \E i \in Slots :
    /\ Inlined(inv[i])
    /\ Cardinality(Reachable(inv[i])) = 3
    /\ \E x \in Reachable(inv[i]) : DependsOn(inv[i], x, x)
    /\ \E x \in Reachable(inv[i]) :
         \E y \in InternalImports(inv[i], x) :
           /\ ~DependsOn(inv[i], y, x)
           /\ DependsOn(inv[i], x, x)
           /\ FragmentBefore(inv[i], y, x)

\* where the k-th entry of bundleStack starts in the final program, less one
RECURSIVE StackOffset(_, _)
StackOffset(iv, k) ==
  IF k = 1 THEN Len(iv.externalImportSet)
  ELSE StackOffset(iv, k - 1) + Len(iv.bundleStack[k - 1].body)

\* C13: when the final program of an invocation is assembled, the last entry
\* of bundleStack is the fragment of the entry file, and the program is the
\* statements of the registry in insertion order followed by the entries of
\* bundleStack in order.
C13_EntryLastRegistryFirst ==
  \A i \in Slots :
    LET iv == inv[i]
    IN  (Settled(iv) /\ Inlined(iv))
        => /\ Last(iv.bundleStack).fragment
           /\ Last(iv.bundleStack).file = iv.filePath
           /\ \A k \in 1 .. Len(iv.bundleStack) - 1 :
                ~(iv.bundleStack[k].fragment /\ iv.bundleStack[k].file = iv.filePath)
           /\ Len(iv.finalBundle) = StackOffset(iv, Len(iv.bundleStack) + 1)
           /\ \A k \in DOMAIN iv.externalImportSet :
                iv.finalBundle[k] = iv.externalImportSet[k]
           /\ \A k \in DOMAIN iv.bundleStack :
                \A m \in DOMAIN iv.bundleStack[k].body :
                  iv.finalBundle[StackOffset(iv, k) + m] = iv.bundleStack[k].body[m]

\* a program has been assembled from a registry with an external binding next
\* to the shim and from a stack of two dependency fragments, alias
\* declarations and the entry's fragment
C13_Witness ==
  \E i \in Slots :
    /\ Settled(inv[i])
    /\ Inlined(inv[i])
    /\ Len(inv[i].externalImportSet) >= 2
    /\ Len(inv[i].bundleStack) >= 3
    /\ \E k \in DOMAIN inv[i].bundleStack :
         inv[i].bundleStack[k].fragment /\ inv[i].bundleStack[k].file # inv[i].filePath
    /\ Last(inv[i].bundleStack).file = inv[i].filePath
    /\ Len(Last(inv[i].bundleStack).body) > 0

\* the statement asks for a relative specifier that resolves, from the file at
\* basePath, to no file on disk after the extensions were probed
UnresolvedRelative(stmt, basePath) ==
  /\ SpecifierOf(stmt) # NoName
  /\ StartsWith(SpecifierOf(stmt), ".")
  /\ ~existsSync(ResolveSpecifier(SpecifierOf(stmt), basePath, loadTsConfig(project),
                                  project.files),
                 project.files)

\* C14: an invocation that has visited an import of a relative specifier that
\* resolves to no file has failed with the error that names the specifier and
\* the candidate path, and its registry holds no binding for that specifier.
C14_UnresolvedInternalImportIsFatal ==
  \A i \in Slots :
    \A k \in DOMAIN inv[i].stack :
      LET f == inv[i].stack[k]
      IN  \A n \in DOMAIN f.ast :
            (n < f.pc /\ UnresolvedRelative(f.ast[n], f.basePath))
            => /\ inv[i].status = "failed"
               /\ inv[i].error = "Cannot resolve import"
               /\ \A m \in DOMAIN f.externalImportMap :
                    f.externalImportMap[m].module # SpecifierOf(f.ast[n])

\* C15: in the file-based variant, the step in which execute settles after its
\* import leaves allTempFiles empty, a deletion has then been attempted for
\* every temporary file the invocation registered, and execute resolves or
\* rejects exactly as the import did, whether or not a deletion failed.
C15_TempFilesCleanedOnSettle ==
  /\ [](\A i \in Slots :
          fileInv[i].imported # ""
          => /\ Range(fileInv[i].registered) \subseteq fileInv[i].attempted
             /\ fileInv[i].status = fileInv[i].imported
             /\ fileInv[i].error = (IF fileInv[i].imported = "rejected" THEN "import"
                                     ELSE ""))
  /\ [][\A i \in Slots :
          (fileInv[i].status = "importing" /\ fileInv'[i].status # "importing")
          => allTempFiles' = <<>>]_vars

\* an execute has rejected with the error of its import after a cleanup in
\* which a deletion failed; it had registered two temporary files or more,
\* and the file whose deletion failed is still on disk
C15_Witness ==
  \E i \in Slots :
    /\ fileInv[i].imported = "rejected"
    /\ fileInv[i].status = "rejected"
    /\ fileInv[i].warnings > 0
    /\ Len(fileInv[i].registered) >= 2
    /\ Range(fileInv[i].registered) \cap tempDisk # {}
    /\ allTempFiles = <<>>

\* C16: an execute invocation works on what is on disk when it is called: the
\* source of its entry and the transpiled text of every file it asks the
\* transformer for are those of the files as they are now, also when an
\* earlier invocation has read and transpiled the same files before they
\* were changed.
C16_CachesLiveForOneInvocation ==
  \A i \in Slots :
    (inv[i].status = "running" /\ inv[i].api = "execute")
    => /\ inv[i].code = readFileSync(inv[i].filePath, project.files)
       /\ \A k \in DOMAIN inv[i].xlog :
            inv[i].xlog[k].code =
              transformSync(readFileSync(inv[i].xlog[k].path, project.files),
                            extname(inv[i].xlog[k].path))

\* the file the node that the invocation visits next makes fullCodeGen be
\* called for, NoName when it makes no such call
CallTarget(iv) ==
  LET sp == SpecifierOf(CurrentNode(iv))
      target == ResolveSpecifier(sp, Top(iv).basePath, loadTsConfig(project),
                                 project.files)
  IN  IF sp # NoName /\ existsSync(target, project.files) THEN target ELSE NoName

\* C17: the path of every activation of fullCodeGen is in processedFiles from
\* before its text is parsed, rewritten or searched for dependencies, and a
\* call of fullCodeGen for a path already in processedFiles returns at once:
\* processedFiles, bundleStack and the registry are as before and no
\* activation is added.
C17_MarkedBeforeBodyAndRevisitIsNoOp ==
  /\ [](\A i \in Slots :
          \A k \in DOMAIN inv[i].stack :
            inv[i].stack[k].basePath \in inv[i].processedFiles)
  /\ [][\A i \in Slots :
          (/\ Visiting(inv[i])
           /\ CallTarget(inv[i]) # NoName
           /\ CallTarget(inv[i]) \in inv[i].processedFiles
           /\ inv'[i] # inv[i])
          => /\ inv'[i].processedFiles = inv[i].processedFiles
             /\ inv'[i].bundleStack = inv[i].bundleStack
             /\ inv'[i].externalImportSet = inv[i].externalImportSet
             /\ Len(inv'[i].stack) = Len(inv[i].stack)
             /\ inv'[i].io.parses = inv[i].io.parses]_vars

\* fullCodeGen was called for a file whose activation is still on the stack
\* (an import cycle) and has returned to the importing file
C17_Witness ==
  \E i \in Slots :
    /\ inv[i].status = "running"
    /\ Len(inv[i].stack) >= 2
    /\ Top(inv[i]).phase = "resume"
    /\ Top(inv[i]).pc <= Len(Top(inv[i]).ast)
    /\ \E k \in 1 .. Len(inv[i].stack) - 1 :
         inv[i].stack[k].basePath = CallTarget(inv[i])
    /\ inv[i].io.parses = Len(inv[i].stack)
    /\ inv[i].bundleStack = <<>>

\* the names the statements of a stack entry declare
DeclaredIn(entry) ==
  UNION {DeclaredNames(entry.body[k]) : k \in DOMAIN entry.body}

\* the names a stack entry declares as functions, which are initialised
\* before the first statement of the program runs
HoistedIn(entry) ==
  UNION {DeclaredNames(entry.body[k]) :
           k \in {j \in DOMAIN entry.body : entry.body[j].type = "FunctionDeclaration"}}

\* the alias declarations `const <local> = <imported>;` of a stack entry
AliasesOf(entry) ==
  IF entry.fragment THEN {}
  ELSE {entry.body[k].declarations[1] :
          k \in {j \in DOMAIN entry.body :
                   entry.body[j].declarations[1].init.type = "Identifier"}}

\* C18: in the program an invocation assembles, an alias statement
\* `const <local> = <imported>;` synthesized for an internal import, whose
\* <imported> a fragment of the program declares, comes when <imported> is
\* defined: a fragment before the statement declares it, or it is a function
\* declaration.  This holds also when the imported file was already visited
\* or is still being processed.
C18_DefinedBeforeUse ==
  \A i \in Slots :
    (Settled(inv[i]) /\ Inlined(inv[i]))
    => \A k \in DOMAIN inv[i].bundleStack :
         \A d \in AliasesOf(inv[i].bundleStack[k]) :
           (\E j \in DOMAIN inv[i].bundleStack :
              /\ inv[i].bundleStack[j].fragment
              /\ d.init.value \in DeclaredIn(inv[i].bundleStack[j]))
           => \E j \in DOMAIN inv[i].bundleStack :
                /\ inv[i].bundleStack[j].fragment
                /\ \/ j < k /\ d.init.value \in DeclaredIn(inv[i].bundleStack[j])
                   \/ d.init.value \in HoistedIn(inv[i].bundleStack[j])

\* the name a specifier of `export { ... }` exposes its local name under
ExportedNameOf(sp) == IF IsNull(sp.exported) THEN sp.orig.value ELSE sp.exported.value

\* C19: the fragment of a file, entry or not, whose text has a named export
\* with a specifier list holds no export statement, and for every specifier
\* exactly one assignment module.exports.<exported> = <local>.
C19_ExportListBecomesAssignments ==
  \A i \in Slots :
    \A k \in DOMAIN inv[i].bundleStack :
      LET entry == inv[i].bundleStack[k]
          text == UnitText(inv[i], entry.file)
      IN  entry.fragment
          => /\ \A n \in DOMAIN entry.body :
                  entry.body[n].type # "ExportNamedDeclaration"
             /\ \A ex \in StatementsOfType(text, "ExportNamedDeclaration") :
                  \A sp \in Range(ex.specifiers) :
                    Cardinality({n \in DOMAIN entry.body :
                                   entry.body[n] =
                                     createExportAssignment(ExportedNameOf(sp),
                                                            sp.orig.value)}) = 1

\* the names of the functions and classes a text exports by default
DefaultDeclarationNames(text) ==
  {st.decl.identifier.value :
     st \in {d \in StatementsOfType(text, "ExportDefaultDeclaration") :
               ~IsNull(d.decl.identifier)}}

\* C20: the fragment of a file that exports a named function or class by
\* default holds the bare declaration and no export statement; when the file
\* is the entry, the invocation resolves and the namespace it returns has
\* that function or class under `default`.
C20_DefaultDeclarationExported ==
  \A i \in Slots :
    (Settled(inv[i]) /\ Inlined(inv[i]))
    => /\ \A k \in DOMAIN inv[i].bundleStack :
            LET entry == inv[i].bundleStack[k]
            IN  entry.fragment
                => /\ \A n \in DOMAIN entry.body :
                        entry.body[n].type # "ExportDefaultDeclaration"
                   /\ \A name \in DefaultDeclarationNames(UnitText(inv[i], entry.file)) :
                        \E n \in DOMAIN entry.body :
                          /\ IsFunctionStatement(entry.body[n])
                          /\ entry.body[n].identifier.value = name
       /\ \A name \in DefaultDeclarationNames(UnitText(inv[i], inv[i].filePath)) :
            /\ inv[i].status = "done"
            /\ "default" \in DOMAIN inv[i].result.exports
            /\ inv[i].result.exports["default"] = inv[i].result.env[name]

\* C21: in the fragment of every inlined file a declaration the file exports
\* is kept, and it is followed by the assignment module.exports.<name> = <name>
\* of each name it declares exactly when the file is the entry, the path the
\* invocation was called with.
C21_NamedExportAssignedIffEntry ==
  \A i \in Slots :
    (Settled(inv[i]) /\ Inlined(inv[i]))
    => \A e \in DOMAIN inv[i].bundleStack :
         LET entry == inv[i].bundleStack[e]
         IN  entry.fragment
             => \A st \in StatementsOfType(UnitText(inv[i], entry.file), "ExportDeclaration") :
                  \A name \in DeclaredNames(st.declaration) :
                    \E k \in DOMAIN entry.body :
                      /\ entry.body[k] = st.declaration
                      /\ (entry.file = inv[i].filePath)
                           <=> \E j \in DOMAIN entry.body :
                                 /\ j > k
                                 /\ entry.body[j] = createExportAssignment(name, name)

\* `module.exports = <rhs>` or `exports.<name> = <rhs>`
IsExportAssignment(stmt) ==
  /\ stmt.type = "ExpressionStatement"
  /\ stmt.expression.type = "AssignmentExpression"
  /\ stmt.expression.left.type = "MemberExpression"
  /\ \/ stmt.expression.left = MemberExpression(Identifier("module"), Identifier("exports"))
     \/ stmt.expression.left.object = Identifier("exports")

\* C22: of an export assignment in the text of an inlined file, the fragment
\* holds the bare declaration when the right side is a function or class
\* expression, and the statement itself, unchanged, otherwise.
C22_ExportAssignmentKept ==
  \A i \in Slots :
    (Settled(inv[i]) /\ Inlined(inv[i]))
    => \A e \in DOMAIN inv[i].bundleStack :
         LET entry == inv[i].bundleStack[e]
             text == UnitText(inv[i], entry.file)
         IN  entry.fragment
             => \A n \in DOMAIN text.body :
                  IsExportAssignment(text.body[n])
                  => LET right == text.body[n].expression.right
                     IN  IF right.type \in {"FunctionExpression", "ClassExpression"}
                           THEN \E k \in DOMAIN entry.body :
                                  /\ entry.body[k].type
                                       \in {"FunctionDeclaration", "ClassDeclaration"}
                                  /\ entry.body[k].identifier = right.identifier
                           ELSE \E k \in DOMAIN entry.body : entry.body[k] = text.body[n]

\* the internal files the text of the file at path p re-exports with export *
ReExported(iv, p) ==
  LET Target(st) == ResolveSpecifier(st.source.value, p, loadTsConfig(project),
                                     project.files)
  IN  {Target(st) : st \in {x \in StatementsOfType(UnitText(iv, p), "ExportAllDeclaration") :
                              existsSync(Target(x), project.files)}}

\* C23: when the text of an inlined file has `export * from S` with S an
\* internal file, the fragment of S is in bundleStack once, the fragment of
\* the file holds no export-all statement, and, the file being the entry,
\* the invocation resolves with a namespace that has every name S exports
\* with its declarations.
C23_ExportAllReachesNamespace ==
  \A i \in Slots :
    (Settled(inv[i]) /\ Inlined(inv[i]))
    => \A e \in DOMAIN inv[i].bundleStack :
         LET entry == inv[i].bundleStack[e]
         IN  entry.fragment
             => \A S \in ReExported(inv[i], entry.file) :
                  /\ FragmentCount(inv[i], S) = 1
                  /\ \A k \in DOMAIN entry.body :
                       entry.body[k].type # "ExportAllDeclaration"
                  /\ entry.file = inv[i].filePath
                       => /\ inv[i].status = "done"
                          /\ ExportedDeclarationNames(UnitText(inv[i], S))
                               \subseteq DOMAIN inv[i].result.exports

\* the first arguments of the calls of an expression whose callee has the
\* given type and, for an identifier, the given name
RECURSIVE CallsIn(_, _, _)
CallsIn(x, type, name) ==
  CASE x.type = "CallExpression" ->
         (IF x.callee.type = type /\ ValueOf(x.callee) = name
            THEN {x.arguments[1].expression.value} ELSE {})
         \cup UNION {CallsIn(x.arguments[k].expression, type, name) :
                       k \in DOMAIN x.arguments}
    [] x.type = "ArrowFunctionExpression" -> CallsIn(x.body, type, name)
    [] x.type = "AssignmentExpression" ->
         CallsIn(x.left, type, name) \cup CallsIn(x.right, type, name)
    [] x.type = "MemberExpression" ->
         CallsIn(x.object, type, name) \cup CallsIn(x.property, type, name)
    [] OTHER -> {}

\* the same over the statements of a text
CallsOf(body, type, name) ==
  LET InStatement(st) ==
        CASE st.type = "VariableDeclaration" ->
               UNION {CallsIn(st.declarations[k].init, type, name) :
                        k \in DOMAIN st.declarations}
          [] st.type = "ExpressionStatement" -> CallsIn(st.expression, type, name)
          [] st.type = "ExportDeclaration" ->
               IF st.declaration.type = "VariableDeclaration"
                 THEN UNION {CallsIn(st.declaration.declarations[k].init, type, name) :
                               k \in DOMAIN st.declaration.declarations}
                 ELSE {}
          [] OTHER -> {}
  IN  UNION {InStatement(body[k]) : k \in DOMAIN body}

\* C24: the fragment of an inlined file holds no dynamic import call, and
\* for every import(x) of the file's text it holds require(x).
C24_DynamicImportBecomesRequire ==
  \A i \in Slots :
    (Settled(inv[i]) /\ Inlined(inv[i]))
    => \A e \in DOMAIN inv[i].bundleStack :
         LET entry == inv[i].bundleStack[e]
         IN  entry.fragment
             => /\ CallsOf(entry.body, "Import", NoName) = {}
                /\ CallsOf(UnitText(inv[i], entry.file).body, "Import", NoName)
                     \subseteq CallsOf(entry.body, "Identifier", "require")

\* the path of a non-relative specifier by the longest matching alias
\* pattern: its first target whose probed candidate exists, otherwise (and
\* when no pattern matches) the specifier under the base directory
LongestPrefixTarget(importPath, tsConfig, files) ==
  LET baseDir == resolve(getProjectRoot, tsConfig.baseUrl)
      matching == {k \in DOMAIN tsConfig.paths :
                     StartsWith(importPath, StripStar(tsConfig.paths[k].alias))}
      longest == {k \in matching :
                    \A j \in matching : Len(StripStar(tsConfig.paths[j].alias))
                                           <= Len(StripStar(tsConfig.paths[k].alias))}
      best == tsConfig.paths[MinOf(longest)]
      cands == [t \in DOMAIN best.targets |->
                  resolvePathWithExtension(
                    resolve(baseDir, StripStar(best.targets[t])
                                       \o Slice(importPath, Len(StripStar(best.alias)))),
                    files)]
      hits == {t \in DOMAIN cands : existsSync(cands[t], files)}
  IN  IF tsConfig.baseUrl = "" THEN importPath
      ELSE IF matching = {} THEN resolve(baseDir, importPath)
      ELSE IF hits = {} THEN resolve(baseDir, importPath)
      ELSE cands[MinOf(hits)]

\* the non-relative specifiers of a text
BareSpecifiers(text) ==
  {SpecifierOf(text.body[k]) :
     k \in {j \in DOMAIN text.body : /\ SpecifierOf(text.body[j]) # NoName
                                      /\ ~StartsWith(SpecifierOf(text.body[j]), ".")}}

\* C25: every non-relative specifier of an inlined file was resolved to the
\* path the longest matching alias pattern gives, and when that path is a
\* file it was inlined.
C25_LongestAliasPrefixWins ==
  \A i \in Slots :
    (Settled(inv[i]) /\ Inlined(inv[i]))
    => \A e \in DOMAIN inv[i].bundleStack :
         LET entry == inv[i].bundleStack[e]
         IN  entry.fragment
             => \A importPath \in BareSpecifiers(UnitText(inv[i], entry.file)) :
                  LET claimed == LongestPrefixTarget(importPath, loadTsConfig(project),
                                                     project.files)
                  IN  /\ resolveImportPath(importPath, loadTsConfig(project), project.files)
                           = claimed
                      /\ existsSync(resolvePathWithExtension(claimed, project.files),
                                    project.files)
                           => resolvePathWithExtension(claimed, project.files)
                                \in inv[i].processedFiles

\* the path before extension probing of the specifier the invocation is at
Unprobed(iv) ==
  LET importPath == SpecifierOf(CurrentNode(iv))
  IN  IF StartsWith(importPath, ".") THEN resolve(dirname(Top(iv).basePath), importPath)
      ELSE resolveImportPath(importPath, loadTsConfig(project), project.files)

\* path + ext for the first ext of .js, .ts, .mjs, .mts, .cjs, .cts, .jsx,
\* .tsx for which a file exists; the path when it has an extension or when
\* there is no such file
FirstExisting(path, files) ==
  LET order == <<".js", ".ts", ".mjs", ".mts", ".cjs", ".cts", ".jsx", ".tsx">>
      hits == {k \in DOMAIN order : existsSync(path \o order[k], files)}
  IN  IF extname(path) # "" THEN path
      ELSE IF hits = {} THEN path
      ELSE path \o order[MinOf(hits)]

\* the invocation is at a node with a specifier, and its step is taken
ResolvesSpecifier(i) ==
  /\ Visiting(inv[i])
  /\ SpecifierOf(CurrentNode(inv[i])) # NoName
  /\ inv'[i] # inv[i]

\* C26: the step that resolves a specifier goes to the file the first
\* existing extension gives: when that file exists it is marked as
\* processed; when it does not, nothing is read or inlined and an import is
\* entered in the registry of external modules.  A relative specifier that
\* has an extension costs the one existence test and no probe.
C26_FirstExistingExtension ==
  [][\A i \in Slots :
       ResolvesSpecifier(i)
       => LET path == Unprobed(inv[i])
              target == FirstExisting(path, project.files)
          IN  /\ existsSync(target, project.files)
                   => target \in inv'[i].processedFiles
              /\ ~existsSync(target, project.files)
                   => /\ inv'[i].processedFiles = inv[i].processedFiles
                      /\ inv'[i].io.reads = inv[i].io.reads
                      /\ Len(inv'[i].stack) = Len(inv[i].stack)
                      /\ CurrentNode(inv[i]).type = "ImportDeclaration"
                           => \E k \in DOMAIN Top(inv'[i]).externalImportMap :
                                Top(inv'[i]).externalImportMap[k].module
                                  = SpecifierOf(CurrentNode(inv[i]))
              /\ (extname(path) # "" /\ StartsWith(SpecifierOf(CurrentNode(inv[i])), "."))
                   => inv'[i].io.exists = inv[i].io.exists + 1]_vars

\* an invocation has settled that resolved ./dup to dup.js although dup.ts
\* exists, found no file for ./nowhere, and took ./dup.ts as it is
C26_Witness ==
  \E i \in Slots :
    /\ Settled(inv[i])
    /\ inv[i].filePath = "/proj/probe.ts"
    /\ inv[i].processedFiles = {"/proj/probe.ts", "/proj/dup.js", "/proj/dup.ts"}
    /\ \E k \in DOMAIN inv[i].externalImportSet :
         /\ inv[i].externalImportSet[k].type = "ConstRequireObject"
         /\ inv[i].externalImportSet[k].module = "./nowhere"
    /\ inv[i].io.reads = 3

IsRequireBinding(declarator) ==
  /\ declarator.init.type = "CallExpression"
  /\ ValueOf(declarator.init.callee) = "require"

\* C30: of a variable declaration statement in the text of an inlined file:
\* when its first declarator binds a require call, every declarator of the
\* statement that does not is a declarator of a statement of the fragment;
\* otherwise (and when it holds no dynamic import) the statement itself is
\* in the fragment.
C30_OtherDeclaratorsKept ==
  \A i \in Slots :
    (Settled(inv[i]) /\ Inlined(inv[i]))
    => \A e \in DOMAIN inv[i].bundleStack :
         LET entry == inv[i].bundleStack[e]
             text == UnitText(inv[i], entry.file)
         IN  entry.fragment
             => \A n \in DOMAIN text.body :
                  (/\ text.body[n].type = "VariableDeclaration"
                   /\ text.body[n].declarations # <<>>)
                  => LET stmt == text.body[n]
                     IN  IF IsRequireBinding(stmt.declarations[1])
                           THEN \A d \in DOMAIN stmt.declarations :
                                  ~IsRequireBinding(stmt.declarations[d])
                                  => \E k \in DOMAIN entry.body :
                                       /\ entry.body[k].type = "VariableDeclaration"
                                       /\ \E m \in DOMAIN entry.body[k].declarations :
                                            entry.body[k].declarations[m]
                                              = stmt.declarations[d]
                           ELSE CallsOf(<<stmt>>, "Import", NoName) = {}
                                => \E k \in DOMAIN entry.body : entry.body[k] = stmt

\* the internal file the statement at position k of an activation asks for
Dependency(f, k) ==
  ResolveSpecifier(SpecifierOf(f.ast[k]), f.basePath, loadTsConfig(project),
                   project.files)

HasDependency(f, k) ==
  /\ SpecifierOf(f.ast[k]) # NoName
  /\ existsSync(Dependency(f, k), project.files)

\* the fragment of the file at p is in bundleStack
FragmentPushed(iv, p) ==
  \E e \in DOMAIN iv.bundleStack : iv.bundleStack[e].fragment /\ iv.bundleStack[e].file = p

\* an activation for the file at p has not returned yet
OnStack(iv, p) == \E d \in DOMAIN iv.stack : iv.stack[d].basePath = p

\* the files reached from `frontier` by internal imports, those of an
\* activation that has not returned left out
RECURSIVE ReachReturned(_, _, _)
ReachReturned(iv, frontier, seen) ==
  IF frontier = {} THEN seen
  ELSE ReachReturned(iv,
                     UNION {InternalImports(iv, p) :
                              p \in {q \in frontier : ~OnStack(iv, q)}}
                       \ (seen \cup frontier),
                     seen \cup frontier)

\* behind the position of every activation, the fragment of every file
\* reachable from a dependency is pushed
SubtreesPushed(iv) ==
  \A d \in DOMAIN iv.stack :
    LET f == iv.stack[d]
    IN  \A k \in 1 .. (f.pc - 1) :
          (k \in DOMAIN f.ast /\ HasDependency(f, k))
          => \A p \in ReachFrom(iv, {Dependency(f, k)}, {}) : FragmentPushed(iv, p)

\* every activation but the innermost is suspended at the statement whose
\* dependency the next activation inlines, and behind the position of every
\* activation the subtree of each dependency is pushed, up to the
\* activations that have not returned
DepthFirst(iv) ==
  \A d \in DOMAIN iv.stack :
    LET f == iv.stack[d]
    IN  /\ d < Len(iv.stack)
             => /\ f.phase = "await"
                /\ HasDependency(f, f.pc)
                /\ Dependency(f, f.pc) = iv.stack[d + 1].basePath
        /\ \A k \in 1 .. (f.pc - 1) :
             (k \in DOMAIN f.ast /\ HasDependency(f, k))
             => \A p \in ReachReturned(iv, {Dependency(f, k)}, {}) :
                  FragmentPushed(iv, p) \/ OnStack(iv, p)

\* a step from a to b of a running invocation is a step of its innermost
\* activation only
InnermostOnly(a, b) ==
  LET n == Len(a.stack)
      m == Len(b.stack)
  IN  /\ m \in {n - 1, n, n + 1}
      /\ \A d \in 1 .. (n - 1) : d < m => b.stack[d] = a.stack[d]
      /\ (m = n - 1 /\ m > 0) => b.stack[m] = [a.stack[m] EXCEPT !.phase = "resume"]
      /\ m = n - 1
           => \E e \in {b.bundleStack[Len(b.bundleStack)]} :
                /\ b.bundleStack = Append(a.bundleStack, e)
                /\ e.fragment
                /\ e.file = Top(a).basePath
      /\ m >= n
           => \/ b.bundleStack = a.bundleStack
              \/ /\ Len(b.bundleStack) = Len(a.bundleStack) + 1
                 /\ b.bundleStack
                      = Append(a.bundleStack, b.bundleStack[Len(b.bundleStack)])
                 /\ ~b.bundleStack[Len(b.bundleStack)].fragment
                 /\ b.bundleStack[Len(b.bundleStack)].file = Top(a).basePath
      /\ \/ b.processedFiles = a.processedFiles
         \/ /\ m = n + 1
            /\ b.processedFiles = a.processedFiles \cup {Top(b).basePath}
            /\ Top(b).basePath \notin a.processedFiles

\* C28 as stated: while an invocation inlines, behind the position of every
\* activation the whole subtree of each dependency has been pushed.
C28_WholeSubtreePushed ==
  \A i \in Slots :
    (inv[i].status = "running" /\ inv[i].stack # <<>>) => SubtreesPushed(inv[i])

\* C28: within one invocation the inlining is depth-first in source order:
\* behind the position of every activation the subtree of each dependency is
\* pushed, apart from the files whose activation has not returned and what
\* is reached only through them; and every step that changes the activation
\* stack, bundleStack or processedFiles is a step of the innermost
\* activation, every other one being suspended on its callee.
C28_DepthFirstNoOverlap ==
  [][\A i \in Slots :
       (inv[i].status = "running" /\ inv[i].stack # <<>>)
       => /\ DepthFirst(inv[i])
          /\ inv[i]'.status = "running" => InnermostOnly(inv[i], inv[i]')]_vars

\* an activation is behind two dependencies: one an activation that has not
\* returned (an import cycle), one whose fragment is pushed
C28_Witness ==
  \E i \in Slots :
    /\ inv[i].status = "running"
    /\ \E d \in DOMAIN inv[i].stack :
         LET f == inv[i].stack[d]
             behind == {k \in 1 .. (f.pc - 1) : k \in DOMAIN f.ast /\ HasDependency(f, k)}
         IN  /\ \E k \in behind : OnStack(inv[i], Dependency(f, k))
             /\ \E k \in behind : FragmentPushed(inv[i], Dependency(f, k))

\* C29: every temporary file registered by an invocation of the file-based
\* variant whose dynamic import has not completed is still on disk.
C29_TempFilesKeptUntilImported ==
  \A i \in Slots :
    fileInv[i].status = "importing" => Range(fileInv[i].registered) \subseteq tempDisk

====
